---- MODULE Spec2Model ----
(***************************************************************************)
(* NetBox IPMI move auditor: the SQLite state store (state.py) and the     *)
(* poll loop that drives it (main.py).                                     *)
(*                                                                         *)
(* Conventions.                                                            *)
(*  - A Python Optional / a nullable SQL column is a sequence of length at *)
(*    most one: <<>> is None / NULL, <<v>> is the value v.                 *)
(*  - Time is counted in ticks.  datetime.isoformat() of tick t is the     *)
(*    one-element string <<t>>; ISO strings of one length order as their   *)
(*    instants do, so ORDER BY sent_at is the order of the ticks.          *)
(***************************************************************************)
EXTENDS Integers, Sequences, FiniteSets, TLC

VARIABLES
    now,               \* datetime.utcnow(), in ticks
    mac_state,         \* table mac_state: mac_address -> Optional row
    alert_history,     \* table alert_history: sequence of rows in insertion order
    alert_seq,         \* AUTOINCREMENT counter of alert_history.id
    confirm_threshold, \* settings.move_confirm_runs
    tags,              \* inventory: the devices that carry the move tag
    pc,                \* poll loop: "idle", "events" (inside _process_events) or "sleep";
                       \* run: "main", "startup", "loop", "run_once", "events", "after",
                       \* "sleeping", "backoff" or "exited"
    events,            \* poll loop: the events of the cycle not yet processed
    sent,              \* notifier: the alerts it has delivered, oldest first
    cycles,            \* the number of poll cycles started so far
    cyc_run,           \* the latest consecutive cycles that reported one move of MacA
    last,              \* the last store call or loop iteration, its inputs and results
    moves_run,         \* per MAC, the run of move events at one endpoint
    settings,          \* Settings as the correlator reads them: uplinks and MLAG groups
    failed,            \* per device, the latest alert the notifier did not deliver
    running,           \* IpmiMoveAuditor._running, the flag the signal handler clears
    sleep_left,        \* run: the seconds left of the sleep in progress
    exit_code,         \* Optional: the exit code of the process once it has exited
    env                \* the environment: MLAG_GROUPS, REMIND_AFTER, SWITCHES_SELECTOR

db_vars == <<mac_state, alert_history, alert_seq>>
loop_vars == <<confirm_threshold, tags, pc, events, sent, cycles, cyc_run, failed>>
run_vars == <<running, sleep_left, exit_code, env>>
vars == <<now, mac_state, alert_history, alert_seq, confirm_threshold, tags, pc, events,
          sent, cycles, cyc_run, last, moves_run, settings, failed, running, sleep_left,
          exit_code, env>>

----------------------------------------------------------------------------
(* Bounds of the exploration *)

MaxTime == 3
MaxStoreTime == 1
MaxCounter == 2
MaxAlerts == 2
MaxFaultCycles == 1
MaxSleep == 1
MaxSendDelay == 1
MaxConfirmRuns == 2
MaxFdbEntries == 2
PollInterval == 2
BackoffSeconds == 2
MaxCleanupDays == 1

(* Settings: remind_after in ticks (config.py, REMIND_AFTER) *)
RemindAfter == 2

----------------------------------------------------------------------------
(* Optional values *)

None == <<>>
Some(v) == <<v>>

(* the elements of a list *)
Range(seq) == {seq[i] : i \in 1..Len(seq)}

(* datetime.isoformat / datetime.fromisoformat *)
isoformat(t) == <<t>>
fromisoformat(s) == s[1]

(* str() of an Optional[str] inside an f-string *)
fstr(x) == IF x = None THEN "None" ELSE x[1]

----------------------------------------------------------------------------
(* models.py *)

MoveStatus == {"ok", "ok_mlag_peer", "suspect_uplink", "move_detected",
               "move_confirmed", "not_found"}

MacA == "aa:bb:cc:dd:ee:01"
MacB == "aa:bb:cc:dd:ee:02"
Macs == {MacA, MacB}

ObservedEndpoint(sw, port, vlan) ==
    [switch_name |-> sw, port_name |-> port, vlan |-> vlan]

(* the observed endpoints the store is driven with *)
ObsA == ObservedEndpoint("switch2", "Ethernet5", Some(100))
ObsB == ObservedEndpoint("switch2", "Ethernet10", None)

MoveEvent(mac, name, dev, status, observed) ==
    [mac |-> mac, server_name |-> name, device_id |-> dev,
     status |-> status, observed |-> observed]

----------------------------------------------------------------------------
(* state.py: StateManager *)

NoRows == [m \in Macs |-> None]

obs_switch(observed) == IF observed # None THEN Some(observed[1].switch_name) ELSE None
obs_port(observed)   == IF observed # None THEN Some(observed[1].port_name) ELSE None
obs_vlan(observed)   == IF observed # None THEN observed[1].vlan ELSE None

(* a faulty OK update: the counter is reset but first_move_seen_at is kept *)
update_state_ok_keeps_first(row, event, t) ==
    IF row # None
    THEN Some([row[1] EXCEPT !.last_ok_seen_at = isoformat(t),
                             !.move_counter = 0,
                             !.last_move_seen_at = None,
                             !.updated_at = isoformat(t)])
    ELSE Some([server_name |-> event.server_name,
               last_ok_seen_at |-> isoformat(t),
               last_observed_switch |-> None,
               last_observed_port |-> None,
               last_observed_vlan |-> None,
               move_counter |-> 0,
               first_move_seen_at |-> None,
               last_move_seen_at |-> None,
               updated_at |-> isoformat(t)])

(* update_state, status OK / OK_MLAG_PEER: the new row *)
update_state_ok(row, event, t) ==
    IF row # None
    THEN Some([row[1] EXCEPT !.last_ok_seen_at = isoformat(t),
                             !.move_counter = 0,
                             !.first_move_seen_at = None,
                             !.last_move_seen_at = None,
                             !.updated_at = isoformat(t)])
    ELSE Some([server_name |-> event.server_name,
               last_ok_seen_at |-> isoformat(t),
               last_observed_switch |-> None,
               last_observed_port |-> None,
               last_observed_vlan |-> None,
               move_counter |-> 0,
               first_move_seen_at |-> None,
               last_move_seen_at |-> None,
               updated_at |-> isoformat(t)])

(* a faulty insert of a move: the observed endpoint is not stored *)
new_move_row_no_endpoint(event, t) ==
    [row |-> Some([server_name |-> event.server_name,
                   last_ok_seen_at |-> None,
                   last_observed_switch |-> None,
                   last_observed_port |-> None,
                   last_observed_vlan |-> None,
                   move_counter |-> 1,
                   first_move_seen_at |-> isoformat(t),
                   last_move_seen_at |-> isoformat(t),
                   updated_at |-> isoformat(t)]),
     ret |-> 1]

(* the row a move update inserts for a MAC that has none *)
new_move_row(event, t) ==
    [row |-> Some([server_name |-> event.server_name,
                   last_ok_seen_at |-> None,
                   last_observed_switch |-> obs_switch(event.observed),
                   last_observed_port |-> obs_port(event.observed),
                   last_observed_vlan |-> obs_vlan(event.observed),
                   move_counter |-> 1,
                   first_move_seen_at |-> isoformat(t),
                   last_move_seen_at |-> isoformat(t),
                   updated_at |-> isoformat(t)]),
     ret |-> 1]

(* a faulty move update: the endpoints are compared by switch name alone *)
update_state_move_switch_only(row, event, t) ==
    IF row = None
    THEN new_move_row(event, t)
    ELSE IF row[1].last_observed_switch = obs_switch(event.observed)
    THEN [row |-> Some([row[1] EXCEPT
                          !.move_counter = row[1].move_counter + 1,
                          !.last_move_seen_at = isoformat(t),
                          !.updated_at = isoformat(t)]),
          ret |-> row[1].move_counter + 1]
    ELSE [row |-> Some([row[1] EXCEPT
                          !.last_observed_switch = obs_switch(event.observed),
                          !.last_observed_port = obs_port(event.observed),
                          !.last_observed_vlan = obs_vlan(event.observed),
                          !.move_counter = 1,
                          !.first_move_seen_at = isoformat(t),
                          !.last_move_seen_at = isoformat(t),
                          !.updated_at = isoformat(t)]),
          ret |-> 1]

(* a faulty move update: a changed endpoint keeps the old first_move_seen_at *)
update_state_move_keeps_first(row, event, t) ==
    IF row = None
    THEN new_move_row(event, t)
    ELSE IF /\ row[1].last_observed_switch = obs_switch(event.observed)
            /\ row[1].last_observed_port = obs_port(event.observed)
    THEN [row |-> Some([row[1] EXCEPT
                          !.move_counter = row[1].move_counter + 1,
                          !.last_move_seen_at = isoformat(t),
                          !.updated_at = isoformat(t)]),
          ret |-> row[1].move_counter + 1]
    ELSE [row |-> Some([row[1] EXCEPT
                          !.last_observed_switch = obs_switch(event.observed),
                          !.last_observed_port = obs_port(event.observed),
                          !.last_observed_vlan = obs_vlan(event.observed),
                          !.move_counter = 1,
                          !.last_move_seen_at = isoformat(t),
                          !.updated_at = isoformat(t)]),
          ret |-> 1]

(* update_state, status MOVE_DETECTED / MOVE_CONFIRMED: the new row and new_counter *)
update_state_move(row, event, t) ==
    LET observed_switch == obs_switch(event.observed)
        observed_port   == obs_port(event.observed)
        observed_vlan   == obs_vlan(event.observed)
    IN  IF row # None
        THEN IF /\ row[1].last_observed_switch = observed_switch
                /\ row[1].last_observed_port = observed_port
             THEN [row |-> Some([row[1] EXCEPT
                                   !.move_counter = row[1].move_counter + 1,
                                   !.last_move_seen_at = isoformat(t),
                                   !.updated_at = isoformat(t)]),
                   ret |-> row[1].move_counter + 1]
             ELSE [row |-> Some([row[1] EXCEPT
                                   !.last_observed_switch = observed_switch,
                                   !.last_observed_port = observed_port,
                                   !.last_observed_vlan = observed_vlan,
                                   !.move_counter = 1,
                                   !.first_move_seen_at = isoformat(t),
                                   !.last_move_seen_at = isoformat(t),
                                   !.updated_at = isoformat(t)]),
                   ret |-> 1]
        ELSE new_move_row(event, t)

(* update_state, status SUSPECT_UPLINK: the return value *)
update_state_suspect(row) == 0

(* a faulty NOT_FOUND update: it returns 0 as SUSPECT_UPLINK does *)
update_state_not_found_zero(row) == 0

(* update_state, status NOT_FOUND: the return value *)
update_state_not_found(row) == IF row # None THEN row[1].move_counter ELSE 0

(* update_state(event) at time t on table ms: the new table and the return value *)
update_state(ms, event, t) ==
    LET mac == event.mac
        row == ms[mac]
    IN  IF event.status = "ok" \/ event.status = "ok_mlag_peer"
        THEN [db |-> [ms EXCEPT ![mac] = update_state_ok(row, event, t)], ret |-> 0]
        ELSE IF event.status \in {"move_detected", "move_confirmed"}
        THEN LET r == update_state_move(row, event, t)
             IN  [db |-> [ms EXCEPT ![mac] = r.row], ret |-> r.ret]
        ELSE IF event.status = "suspect_uplink"
        THEN [db |-> ms, ret |-> update_state_suspect(row)]
        ELSE [db |-> ms, ret |-> update_state_not_found(row)]

get_move_counter(ms, mac) ==
    IF ms[mac] # None THEN ms[mac][1].move_counter ELSE 0

get_first_move_time(ms, mac) ==
    IF ms[mac] # None /\ ms[mac][1].first_move_seen_at # None
    THEN Some(fromisoformat(ms[mac][1].first_move_seen_at))
    ELSE None

(* sha256(f"{mac}:{switch}:{port}")[:16]: the digest prefix stands for the *)
(* string it was computed from (no collision between distinct strings)     *)
compute_alert_hash(mac, observed_switch, observed_port) ==
    mac \o ":" \o fstr(observed_switch) \o ":" \o fstr(observed_port)

(* SELECT ... WHERE mac_address = ? AND alert_hash = ? *)
(* a faulty cleanup: DELETE ... WHERE sent_at <= cutoff *)
cleanup_up_to_cutoff(ah, days, t) ==
    LET cutoff == isoformat(t - days)
        newer(row) == fromisoformat(row.sent_at) > fromisoformat(cutoff)
    IN  [db |-> SelectSeq(ah, newer), ret |-> Len(ah) - Len(SelectSeq(ah, newer))]

(* cleanup_old_alerts(days) at time t: DELETE FROM alert_history WHERE       *)
(* sent_at < cutoff; the new table and cursor.rowcount                       *)
cleanup_old_alerts(ah, days, t) ==
    LET cutoff == isoformat(t - days)
        kept(row) == ~(fromisoformat(row.sent_at) < fromisoformat(cutoff))
    IN  [db |-> SelectSeq(ah, kept), ret |-> Len(ah) - Len(SelectSeq(ah, kept))]

alert_rows(ah, mac, alert_hash) ==
    {i \in 1..Len(ah) : ah[i].mac_address = mac /\ ah[i].alert_hash = alert_hash}

(* a faulty query: ORDER BY sent_at without DESC, the oldest row comes first *)
oldest_sent_at(ah, rows) ==
    LET i == CHOOSE i \in rows :
                 \A j \in rows : fromisoformat(ah[i].sent_at) <= fromisoformat(ah[j].sent_at)
    IN  ah[i].sent_at

(* ... ORDER BY sent_at DESC LIMIT 1: the sent_at of the first row *)
latest_sent_at(ah, rows) ==
    LET i == CHOOSE i \in rows :
                 \A j \in rows : fromisoformat(ah[j].sent_at) <= fromisoformat(ah[i].sent_at)
    IN  ah[i].sent_at

(* a faulty comparison: a reminder as soon as remind_after is reached *)
reminder_due_at(t, last_sent, remind_after) == t - last_sent >= remind_after

(* the comparison of should_send_alert: now - last_sent > remind_after *)
reminder_due(t, last_sent, remind_after) == t - last_sent > remind_after

(* a faulty check: any earlier alert makes the next one a reminder at once *)
should_send_alert_always_reminds(ah, mac, observed, t) ==
    IF alert_rows(ah, mac, compute_alert_hash(mac, obs_switch(observed), obs_port(observed))) = {}
    THEN <<TRUE, FALSE>>
    ELSE <<TRUE, TRUE>>

(* should_send_alert(mac, observed) at time t: <<should_send, is_reminder>> *)
should_send_alert(ah, mac, observed, t) ==
    LET alert_hash == compute_alert_hash(mac, obs_switch(observed), obs_port(observed))
        rows == alert_rows(ah, mac, alert_hash)
    IN  IF rows = {}
        THEN <<TRUE, FALSE>>
        ELSE IF reminder_due(t, fromisoformat(latest_sent_at(ah, rows)), RemindAfter)
        THEN <<TRUE, TRUE>>
        ELSE <<FALSE, FALSE>>

(* record_alert(mac, observed, is_reminder) at time t: the new table *)
record_alert(ah, seq, mac, observed, is_reminder, t) ==
    Append(ah, [id |-> seq + 1,
                mac_address |-> mac,
                alert_hash |-> compute_alert_hash(mac, obs_switch(observed), obs_port(observed)),
                sent_at |-> isoformat(t),
                observed_switch |-> obs_switch(observed),
                observed_port |-> obs_port(observed),
                is_reminder |-> IF is_reminder THEN 1 ELSE 0])

----------------------------------------------------------------------------
(* str.lower, str.strip and the regular expressions of models.py and       *)
(* config.py, computed on the characters of a name                         *)

Uppers == "ABCDEFGHIJKLMNOPQRSTUVWXYZ"
Lowers == "abcdefghijklmnopqrstuvwxyz"

LowerOf ==
    [c \in {SubSeq(Uppers, i, i) : i \in 1..Len(Uppers)} |->
        LET i == CHOOSE k \in 1..Len(Uppers) : SubSeq(Uppers, k, k) = c
        IN  SubSeq(Lowers, i, i)]

lower_char(c) == IF c \in DOMAIN LowerOf THEN LowerOf[c] ELSE c

RECURSIVE lower(_)
lower(s) ==
    IF Len(s) = 0 THEN ""
    ELSE lower_char(SubSeq(s, 1, 1)) \o lower(SubSeq(s, 2, Len(s)))

RECURSIVE lstrip(_)
lstrip(s) ==
    IF Len(s) > 0 /\ SubSeq(s, 1, 1) = " " THEN lstrip(SubSeq(s, 2, Len(s))) ELSE s

RECURSIVE rstrip(_)
rstrip(s) ==
    IF Len(s) > 0 /\ SubSeq(s, Len(s), Len(s)) = " "
    THEN rstrip(SubSeq(s, 1, Len(s) - 1)) ELSE s

strip(s) == rstrip(lstrip(s))

(* re.compile("^" + prefix, re.IGNORECASE).sub(short, s) *)
prefix_sub(s, prefix, short) ==
    IF Len(s) >= Len(prefix) /\ lower(SubSeq(s, 1, Len(prefix))) = lower(prefix)
    THEN short \o SubSeq(s, Len(prefix) + 1, Len(s))
    ELSE s

(* re.compile(pattern, re.IGNORECASE).search(s), for a pattern of plain characters *)
re_search(pattern, s) ==
    \E i \in 1..(Len(s) - Len(pattern) + 1) :
        lower(SubSeq(s, i, i + Len(pattern) - 1)) = lower(pattern)

(* models.py: _PORT_PREFIXES, in the order of the list *)
PORT_PREFIXES ==
    << <<"40GigabitEthernet", "40GE">>,
       <<"TwentyFiveGigE", "25GE">>,
       <<"TenGigabitEthernet", "10GE">>,
       <<"TenGigE", "10GE">>,
       <<"GigabitEthernet", "GE">>,
       <<"FastEthernet", "FE">>,
       <<"HundredGigE", "100GE">>,
       <<"Ethernet", "Eth">>,
       <<"Vlanif", "Vlanif">>,
       <<"LoopBack", "LoopBack">>,
       <<"Eth-Trunk", "Eth-Trunk">>,
       <<"Port-channel", "Po">> >>

(* the loop of normalize_port_name from the i-th prefix on *)
RECURSIVE sub_prefixes(_, _)
sub_prefixes(s, i) ==
    IF i > Len(PORT_PREFIXES) THEN s
    ELSE sub_prefixes(prefix_sub(s, PORT_PREFIXES[i][1], PORT_PREFIXES[i][2]), i + 1)

normalize_port_name(name) == lower(sub_prefixes(strip(name), 1))

----------------------------------------------------------------------------
(* models.py: the records the correlator reads *)

ExpectedEndpoint(sw, port) == [switch_name |-> sw, port_name |-> port]

ServerIpmi(dev, name, mac, expected) ==
    [device_id |-> dev, server_name |-> name, mac |-> mac, expected_endpoint |-> expected]

FdbEntry(mac, port, vlan) == [mac_address |-> mac, port_name |-> port, vlan |-> vlan]

(* fdb_data is a dict in insertion order: a sequence of SwitchFdb, keyed by switch_name *)
SwitchFdb(sw, entries, error) == [switch_name |-> sw, entries |-> entries, error |-> error]

(* a faulty matches: the switch names are compared as written *)
matches_exact_case(observed, expected) ==
    IF expected = None THEN FALSE
    ELSE /\ observed.switch_name = expected[1].switch_name
         /\ normalize_port_name(observed.port_name) = normalize_port_name(expected[1].port_name)

(* ObservedEndpoint.matches *)
matches(observed, expected) ==
    IF expected = None THEN FALSE
    ELSE /\ lower(observed.switch_name) = lower(expected[1].switch_name)
         /\ normalize_port_name(observed.port_name) = normalize_port_name(expected[1].port_name)

----------------------------------------------------------------------------
(* correlator.py: Correlator *)

(* Settings as Correlator.__init__ reads them: uplink_ports a set of names, *)
(* uplink_patterns a sequence of patterns, mlag_groups the groups in the    *)
(* order of the JSON object, each a sequence of switch names                *)
Settings(uplink_ports, uplink_patterns, mlag_groups) ==
    [uplink_ports |-> uplink_ports, uplink_patterns |-> uplink_patterns,
     mlag_groups |-> mlag_groups]

member_set(members) == {lower(members[i]) : i \in 1..Len(members)}

(* Correlator.__init__: the reverse lookup switch -> group members; a later *)
(* group overwrites the entry an earlier group made for the same switch     *)
mlag_peers(groups) ==
    [m \in UNION {member_set(groups[k]) : k \in 1..Len(groups)} |->
        LET k == CHOOSE j \in 1..Len(groups) :
                    /\ m \in member_set(groups[j])
                    /\ \A i \in (j + 1)..Len(groups) : m \notin member_set(groups[i])
        IN  member_set(groups[k])]

is_uplink_port(st, port_name) ==
    \/ port_name \in st.uplink_ports
    \/ \E k \in 1..Len(st.uplink_patterns) : re_search(st.uplink_patterns[k], port_name)

is_mlag_peer(st, switch1, switch2) ==
    LET peers == mlag_peers(st.mlag_groups)
    IN  /\ lower(switch1) \in DOMAIN peers
        /\ lower(switch2) \in peers[lower(switch1)]

(* a faulty search: the entries of a switch are read whatever its error *)
switch_observations_any(mac, switch_fdb) ==
    LET same_mac(entry) == lower(entry.mac_address) = lower(mac)
        found == SelectSeq(switch_fdb.entries, same_mac)
    IN  [i \in 1..Len(found) |->
            ObservedEndpoint(switch_fdb.switch_name, found[i].port_name, found[i].vlan)]

(* the entries of one switch that carry the MAC, as observed endpoints *)
switch_observations(mac, switch_fdb) ==
    IF switch_fdb.error # None THEN <<>>
    ELSE LET same_mac(entry) == lower(entry.mac_address) = lower(mac)
             found == SelectSeq(switch_fdb.entries, same_mac)
         IN  [i \in 1..Len(found) |->
                 ObservedEndpoint(switch_fdb.switch_name, found[i].port_name, found[i].vlan)]

RECURSIVE find_mac_in_fdb(_, _)
find_mac_in_fdb(mac, fdb_data) ==
    IF fdb_data = <<>> THEN <<>>
    ELSE switch_observations(mac, Head(fdb_data)) \o find_mac_in_fdb(mac, Tail(fdb_data))

(* a Python str | None used as a condition: neither None nor empty *)
truthy(x) == x # None /\ Len(x[1]) > 0

(* a faulty selection: the first observation found, uplink or not *)
select_first_observation(st, observations, expected_switch, expected_port) ==
    IF observations = <<>> THEN None ELSE Some(observations[1])

(* a faulty selection: the first observation that passes the uplink filter *)
select_first_candidate(st, observations, expected_switch, expected_port) ==
    LET not_uplink(o) == ~is_uplink_port(st, o.port_name)
        non_uplink == SelectSeq(observations, not_uplink)
        candidates == IF non_uplink # <<>> THEN non_uplink ELSE observations
    IN  IF observations = <<>> THEN None ELSE Some(candidates[1])

select_best_observation(st, observations, expected_switch, expected_port) ==
    LET not_uplink(o) == ~is_uplink_port(st, o.port_name)
        non_uplink == SelectSeq(observations, not_uplink)
        candidates == IF non_uplink # <<>> THEN non_uplink ELSE observations
        on_switch(o) == lower(o.switch_name) = lower(expected_switch[1])
        on_expected_switch == SelectSeq(candidates, on_switch)
        off_port(o) == normalize_port_name(o.port_name) # normalize_port_name(expected_port[1])
        non_expected_port == SelectSeq(on_expected_switch, off_port)
    IN  IF observations = <<>> THEN None
        ELSE IF Len(candidates) = 1 THEN Some(candidates[1])
        ELSE IF /\ truthy(expected_switch)
                /\ truthy(expected_port)
                /\ Len(on_expected_switch) > 1
                /\ non_expected_port # <<>>
        THEN Some(non_expected_port[1])
        ELSE Some(candidates[1])

determine_status(st, expected, observed) ==
    IF expected = None THEN "move_detected"
    ELSE IF matches(observed, expected) THEN "ok"
    ELSE IF /\ is_mlag_peer(st, expected[1].switch_name, observed.switch_name)
            /\ normalize_port_name(observed.port_name)
                  = normalize_port_name(expected[1].port_name)
    THEN "ok_mlag_peer"
    ELSE IF is_uplink_port(st, observed.port_name) THEN "suspect_uplink"
    ELSE "move_detected"

(* the event correlate appends for one server *)
correlate_server(st, server, fdb_data) ==
    LET expected == server.expected_endpoint
        observations == find_mac_in_fdb(server.mac, fdb_data)
        expected_switch == IF expected # None THEN Some(expected[1].switch_name) ELSE None
        expected_port == IF expected # None THEN Some(expected[1].port_name) ELSE None
        observed == select_best_observation(st, observations, expected_switch, expected_port)
    IN  IF observations = <<>> \/ observed = None
        THEN MoveEvent(server.mac, server.server_name, server.device_id, "not_found", None)
        ELSE MoveEvent(server.mac, server.server_name, server.device_id,
                       determine_status(st, expected, observed[1]), observed)

(* a faulty correlate: the events come out in reverse order *)
correlate_reversed(st, servers, fdb_data) ==
    [i \in 1..Len(servers) |->
        correlate_server(st, servers[Len(servers) + 1 - i], fdb_data)]

correlate(st, servers, fdb_data) ==
    [i \in 1..Len(servers) |-> correlate_server(st, servers[i], fdb_data)]

(* the settings of tests/test_correlator.py: UPLINK_PORTS, UPLINK_PATTERNS,  *)
(* MLAG_GROUPS                                                              *)
TestSettings ==
    Settings({"Ethernet49", "Ethernet50"}, <<"uplink", "trunk">>,
             << <<"switch1", "switch2">> >>)

----------------------------------------------------------------------------
(* The store driven directly through its API (as tests/test_state.py does) *)

ServerName(mac) == IF mac = MacA THEN "server1" ELSE "server2"

(* the observed endpoints a caller passes *)
StoreObserved == {None, Some(ObsA), Some(ObsB)}

(* the events a caller passes to update_state: every status and every observed *)
(* endpoint for MacA; MacB is the bystander row that calls about MacA must     *)
(* leave alone, created by either of the two inserting updates                 *)
StoreEvents ==
    {MoveEvent(MacA, ServerName(MacA), 1, s, None) :
        s \in {"ok", "ok_mlag_peer", "suspect_uplink", "not_found"}}
    \cup
    {MoveEvent(MacA, ServerName(MacA), 1, s, o) :
        s \in {"move_detected", "move_confirmed"}, o \in StoreObserved}
    \cup
    {MoveEvent(MacB, ServerName(MacB), 2, "ok", None),
     MoveEvent(MacB, ServerName(MacB), 2, "move_detected", Some(ObsA))}

(* the (mac, observed) pairs a caller asks and records alerts for *)
StoreAlertKeys ==
    {<<MacA, o>> : o \in StoreObserved} \cup {<<MacB, Some(ObsA)>>}

NoCall == [op |-> "none"]

(* the run of move events the store has been given for one MAC: an OK event    *)
(* ends it, a move at another endpoint starts a new one, the two no-op         *)
(* statuses do not touch it                                                    *)
next_moves_run(run, event) ==
    IF event.status \in {"ok", "ok_mlag_peer"}
    THEN [n |-> 0, sw |-> run.sw, port |-> run.port]
    ELSE IF event.status \in {"move_detected", "move_confirmed"}
    THEN IF run.n > 0 /\ run.sw = obs_switch(event.observed)
                      /\ run.port = obs_port(event.observed)
         THEN [run EXCEPT !.n = run.n + 1]
         ELSE [n |-> 1, sw |-> obs_switch(event.observed), port |-> obs_port(event.observed)]
    ELSE run

NoRuns == [m \in Macs |-> [n |-> 0, sw |-> None, port |-> None]]

(* the devices of the inventory *)
DeviceIds == {1, 2}

NoFailed == [d \in DeviceIds |-> None]


----------------------------------------------------------------------------
(* config.py: the settings read from the environment *)

Digits == "0123456789"

is_digit(c) == \E i \in 1..Len(Digits) : SubSeq(Digits, i, i) = c

digit_value(c) == (CHOOSE i \in 1..Len(Digits) : SubSeq(Digits, i, i) = c) - 1

(* int(s) of a string of digits *)
RECURSIVE int(_)
int(s) ==
    IF Len(s) = 0 THEN 0
    ELSE 10 * int(SubSeq(s, 1, Len(s) - 1)) + digit_value(SubSeq(s, Len(s), Len(s)))

(* timedelta(seconds=1), (minutes=1), (hours=1), (days=1), in seconds *)
unit_seconds(unit) ==
    CASE unit = "s" -> 1
      [] unit = "m" -> 60
      [] unit = "h" -> 3600
      [] unit = "d" -> 86400

(* parse_duration: re.match(r"^(\d+)([smhd])$", value.strip().lower()); the *)
(* result in seconds, or ValueError                                         *)
parse_duration(value) ==
    LET v == lower(strip(value))
        amount == SubSeq(v, 1, Len(v) - 1)
        unit == SubSeq(v, Len(v), Len(v))
        match == /\ Len(v) >= 2
                 /\ \A i \in 1..Len(amount) : is_digit(SubSeq(amount, i, i))
                 /\ unit \in {"s", "m", "h", "d"}
    IN  IF ~match THEN [raised |-> TRUE, value |-> 0]
        ELSE [raised |-> FALSE, value |-> int(amount) * unit_seconds(unit)]

(* the MLAG_GROUPS of tests/test_correlator.py, as the JSON text of the     *)
(* environment                                                              *)
TestMlagGroups == "{\"mlag1\": [\"switch1\", \"switch2\"]}"

(* json.loads on the documents of the exploration: an object gives its      *)
(* values in the order of its keys, any other text is a JSONDecodeError     *)
json_loads(v) ==
    CASE v = TestMlagGroups ->
            [raised |-> FALSE, type |-> "dict", value |-> << <<"switch1", "switch2">> >>]
      [] v = "[]" -> [raised |-> FALSE, type |-> "list", value |-> <<>>]
      [] OTHER -> [raised |-> TRUE, type |-> "", value |-> <<>>]

(* Settings.validate_mlag_groups: ValueError when the text is not JSON *)
validate_mlag_groups(v) == [raised |-> json_loads(v).raised, value |-> v]

(* Settings.validate_remind_after: ValueError when parse_duration raises *)
validate_remind_after(v) == [raised |-> parse_duration(v).raised, value |-> v]

(* the index of the first c in s, 0 when there is none *)
find(s, c) ==
    IF \E i \in 1..Len(s) : SubSeq(s, i, i) = c
    THEN CHOOSE i \in 1..Len(s) :
            /\ SubSeq(s, i, i) = c
            /\ \A j \in 1..(i - 1) : SubSeq(s, j, j) # c
    ELSE 0

(* Settings.parse_selector: the filter <<key, value>>, or ValueError when   *)
(* there is no ":" or the key is none of role, tag, site                    *)
parse_selector(selector) ==
    LET i == find(selector, ":")
        key == lower(strip(SubSeq(selector, 1, i - 1)))
        value == strip(SubSeq(selector, i + 1, Len(selector)))
    IN  IF i = 0 THEN [raised |-> TRUE, value |-> <<>>]
        ELSE IF key \in {"role", "tag", "site"} THEN [raised |-> FALSE, value |-> <<key, value>>]
        ELSE [raised |-> TRUE, value |-> <<>>]

(* get_settings(): Settings() runs the field validators *)
get_settings(e) ==
    [raised |-> \/ validate_mlag_groups(e.mlag_groups).raised
                \/ validate_remind_after(e.remind_after).raised,
     value |-> e]

(* Correlator.__init__: get_mlag_groups().items(), an AttributeError when   *)
(* the JSON value is not an object                                          *)
correlator_init(e) == [raised |-> json_loads(e.mlag_groups).type # "dict"]

(* the environment of a default deployment with the MLAG groups of the tests *)
DefaultEnv ==
    [mlag_groups |-> TestMlagGroups, remind_after |-> "6h", switches_selector |-> "role:switch"]

(* the environments the process is started in *)
Envs ==
    [mlag_groups : {TestMlagGroups, "{\"mlag1\": [", "[]"},
     remind_after : {"6h", " 30M ", "6 hours"},
     switches_selector : {"role:switch", "Tag : leaf", "switch", "rack:r1"}]

(* IpmiMoveAuditor.__init__: the process is up and no shutdown is requested *)
Constructed ==
    /\ running = TRUE
    /\ sleep_left = 0
    /\ exit_code = None
    /\ env = DefaultEnv

(* the loop is not running while the store is driven directly *)
LoopIdle ==
    /\ confirm_threshold = 1
    /\ settings = TestSettings
    /\ failed = NoFailed
    /\ Constructed
    /\ tags = {}
    /\ pc = "idle"
    /\ events = <<>>
    /\ sent = <<>>
    /\ cycles = 0
    /\ cyc_run = [n |-> 0, observed |-> None]

(* a row recorded by an earlier run of the agent on the same database file *)
EarlierAlert ==
    [id |-> 1, mac_address |-> MacA,
     alert_hash |-> compute_alert_hash(MacA, obs_switch(Some(ObsA)), obs_port(Some(ObsA))),
     sent_at |-> isoformat(0), observed_switch |-> obs_switch(Some(ObsA)),
     observed_port |-> obs_port(Some(ObsA)), is_reminder |-> 0]

(* StateManager() on a new database file, or on one that holds an alert *)
InitStore ==
    /\ now = 0
    /\ mac_state = NoRows
    /\ \/ alert_history = <<>> /\ alert_seq = 0
       \/ alert_history = <<EarlierAlert>> /\ alert_seq = 1
    /\ last = NoCall
    /\ moves_run = NoRuns
    /\ LoopIdle

TickStore ==
    /\ now < MaxStoreTime
    /\ now' = now + 1
    /\ UNCHANGED <<run_vars, settings, db_vars, loop_vars, last, moves_run>>

CallUpdateState ==
    /\ \E event \in StoreEvents :
         LET r == update_state(mac_state, event, now)
         IN  /\ r.ret <= MaxCounter
             /\ mac_state' = r.db
             /\ last' = [op |-> "update_state", event |-> event, ret |-> r.ret,
                         before |-> mac_state[event.mac], at |-> now]
             /\ moves_run' = [moves_run EXCEPT ![event.mac] = next_moves_run(@, event)]
    /\ UNCHANGED <<run_vars, settings, now, alert_history, alert_seq, loop_vars>>

NextStore ==
    \/ TickStore
    \/ CallUpdateState

SpecStore == InitStore /\ [][NextStore]_vars

----------------------------------------------------------------------------
(* The alert history driven directly through should_send_alert / record_alert *)

(* StateManager() on a new database file, or on one where an earlier run    *)
(* left a row of mac_state                                                  *)
InitAlerts ==
    /\ now = 0
    /\ mac_state \in {NoRows,
                      update_state(NoRows, MoveEvent(MacA, ServerName(MacA), 1, "move_detected",
                                                     Some(ObsA)), 0).db}
    /\ alert_history = <<>>
    /\ alert_seq = 0
    /\ last = NoCall
    /\ moves_run = NoRuns
    /\ LoopIdle

Tick ==
    /\ now < MaxTime
    /\ now' = now + 1
    /\ UNCHANGED <<run_vars, settings, db_vars, loop_vars, last, moves_run>>

CallShouldSendAlert ==
    /\ \E k \in StoreAlertKeys :
         last' = [op |-> "should_send_alert", mac |-> k[1], observed |-> k[2],
                  ret |-> should_send_alert(alert_history, k[1], k[2], now), at |-> now]
    /\ UNCHANGED <<run_vars, settings, now, db_vars, loop_vars, moves_run>>

CallRecordAlert ==
    /\ Len(alert_history) < MaxAlerts
    /\ \E k \in StoreAlertKeys, is_reminder \in BOOLEAN :
         /\ alert_history' = record_alert(alert_history, alert_seq, k[1], k[2],
                                          is_reminder, now)
         /\ last' = [op |-> "record_alert", mac |-> k[1], observed |-> k[2],
                     is_reminder |-> is_reminder, at |-> now]
    /\ alert_seq' = alert_seq + 1
    /\ UNCHANGED <<run_vars, settings, now, mac_state, loop_vars, moves_run>>

CallCleanupOldAlerts ==
    /\ \E days \in 0..MaxCleanupDays :
         LET r == cleanup_old_alerts(alert_history, days, now)
         IN  /\ alert_history' = r.db
             /\ last' = [op |-> "cleanup_old_alerts", days |-> days, ret |-> r.ret, at |-> now]
    /\ UNCHANGED <<run_vars, settings, now, mac_state, alert_seq, loop_vars, moves_run>>

(* get_move_counter(mac) and get_first_move_time(mac) *)
CallGetters ==
    /\ \E mac \in Macs :
         last' = [op |-> "getters", mac |-> mac, at |-> now,
                  move_counter |-> get_move_counter(mac_state, mac),
                  first_move_time |-> get_first_move_time(mac_state, mac)]
    /\ UNCHANGED <<run_vars, settings, now, db_vars, loop_vars, moves_run>>

NextAlerts ==
    \/ Tick
    \/ CallShouldSendAlert
    \/ CallRecordAlert
    \/ CallCleanupOldAlerts
    \/ CallGetters

SpecAlerts == InitAlerts /\ [][NextAlerts]_vars

----------------------------------------------------------------------------
(* main.py: the poll loop, IpmiMoveAuditor.run / run_once / _process_events *)

(* the cable of the servers: switch1:Ethernet1 *)
Cabled == Some(ExpectedEndpoint("switch1", "Ethernet1"))

(* what get_servers_with_ipmi returns: the inventory does not keep MAC      *)
(* addresses unique, so a second device may carry the MAC of the first      *)
Inventories ==
    {<<ServerIpmi(1, "server1", MacA, Cabled)>>,
     <<ServerIpmi(1, "server1", MacA, Cabled), ServerIpmi(2, "server2", MacA, Cabled)>>}

(* what collect_all returns in a cycle: the MAC on its port, on the MLAG    *)
(* peer, on an uplink only, on another port (with or without a VLAN), or on *)
(* no switch at all                                                         *)
CycleFdbs ==
    {<<SwitchFdb("switch1", <<FdbEntry(MacA, "Ethernet1", Some(100))>>, None)>>,
     <<SwitchFdb("switch2", <<FdbEntry(MacA, "Ethernet1", Some(100))>>, None)>>,
     <<SwitchFdb("switch1", <<FdbEntry(MacA, "Ethernet49", Some(100))>>, None)>>,
     <<SwitchFdb("switch2", <<FdbEntry(MacA, ObsA.port_name, ObsA.vlan)>>, None)>>,
     <<SwitchFdb("switch2", <<FdbEntry(MacA, ObsB.port_name, ObsB.vlan)>>, None)>>,
     <<SwitchFdb("switch1", <<>>, None), SwitchFdb("switch2", <<>>, Some("timeout"))>>}

(* run_once, steps 1-4 for each inventory and FDB a cycle may read: the     *)
(* events that Correlator(settings).correlate returns for them              *)
CycleCorrelations ==
    {[settings |-> TestSettings, events |-> correlate(TestSettings, servers, fdb_data)] :
        servers \in Inventories, fdb_data \in CycleFdbs}

(* what the correlator reported in a cycle: status and selected observation *)
outcome_of(evs) == <<evs[1].status, evs[1].observed>>

(* the run of consecutive cycles, ending with the latest one, in which the  *)
(* correlator reported MOVE_DETECTED for MacA at one observed endpoint; any  *)
(* other cycle (another status, no event at all) ends the run                *)
next_cyc_run(run, outcome) ==
    IF outcome # None /\ outcome[1][1] = "move_detected"
    THEN IF run.n > 0 /\ run.observed = outcome[1][2]
         THEN [run EXCEPT !.n = run.n + 1]
         ELSE [n |-> 1, observed |-> outcome[1][2]]
    ELSE [n |-> 0, observed |-> None]

(* a retry that goes on until the function returns *)
RECURSIVE retrying_until_success(_, _, _)
retrying_until_success(max_attempts, attempts, k) ==
    IF attempts[k].raised /\ k < Len(attempts)
    THEN retrying_until_success(max_attempts, attempts, k + 1)
    ELSE [raised |-> attempts[k].raised, value |-> attempts[k].value, attempts |-> k]

(* tenacity's retry around a function: attempts[k] is what the k-th         *)
(* execution does; it is executed again after it raised, up to max_attempts *)
(* executions, and the last failure is raised as RetryError                 *)
RECURSIVE retrying(_, _, _)
retrying(max_attempts, attempts, k) ==
    IF attempts[k].raised /\ k < max_attempts /\ k < Len(attempts)
    THEN retrying(max_attempts, attempts, k + 1)
    ELSE [raised |-> attempts[k].raised, value |-> attempts[k].value, attempts |-> k]

(* what the executions of an inventory listing call may do in a cycle, were *)
(* it executed so often: raise, return an empty list, or return devices     *)
ListingAttempts ==
    {[raised |-> TRUE, value |-> <<>>], [raised |-> FALSE, value |-> <<>>],
     [raised |-> FALSE, value |-> <<"device">>]}
ListingOutcomes == [1..4 -> ListingAttempts]

(* @retry(stop=stop_after_attempt(3)) def get_servers_with_ipmi / get_switches *)
listing(outcomes) == retrying(3, outcomes, 1)

Init ==
    /\ now = 0
    /\ mac_state = NoRows
    /\ alert_history = <<>>
    /\ alert_seq = 0
    /\ confirm_threshold \in 1..MaxConfirmRuns
    /\ tags = {}
    /\ pc = "idle"
    /\ events = <<>>
    /\ sent = <<>>
    /\ cycles = 0
    /\ cyc_run = [n |-> 0, observed |-> None]
    /\ last = NoCall
    /\ moves_run = NoRuns
    /\ settings = TestSettings
    /\ failed = NoFailed
    /\ Constructed

(* run_once, steps 1-4: the inventory and the FDB are read and correlated *)
BeginCycle ==
    /\ pc = "idle"
    /\ \E c \in CycleCorrelations :
         /\ c.settings = settings
         /\ events' = c.events
         /\ cyc_run' = next_cyc_run(cyc_run, Some(outcome_of(c.events)))
    /\ cycles' = cycles + 1
    /\ pc' = "events"
    /\ UNCHANGED <<run_vars, settings, now, db_vars, confirm_threshold, tags, sent, last, moves_run,
                   failed>>

(* run_once returns early (no servers, no switches) or an inventory call    *)
(* raises after its last attempt                                            *)
SkipCycle ==
    /\ pc = "idle"
    /\ \E call \in {"get_servers_with_ipmi", "get_switches"}, outcomes \in ListingOutcomes :
         /\ listing(outcomes).raised \/ listing(outcomes).value = <<>>
         /\ last' = [op |-> "skip_cycle", call |-> call,
                     attempts |-> listing(outcomes).attempts,
                     raised |-> listing(outcomes).raised]
    /\ cyc_run' = next_cyc_run(cyc_run, None)
    /\ cycles' = cycles + 1
    /\ pc' = "sleep"
    /\ UNCHANGED <<run_vars, settings, now, db_vars, confirm_threshold, tags, events, sent, moves_run,
                   failed>>

(* the loop goes on to the next event, or leaves _process_events *)
NextEvent ==
    /\ events' = Tail(events)
    /\ pc' = IF Tail(events) = <<>> THEN "sleep" ELSE "events"

(* what one iteration of the loop in _process_events did: the calls it made *)
(* on the store, the inventory and the notifier, in order, and their results *)
Iteration(event, counter, promoted, tag_op, tag_ok, decision, notified, recorded, first, calls) ==
    [op |-> "process_event", event |-> event, counter |-> counter, promoted |-> promoted,
     tag_op |-> tag_op, tag_ok |-> tag_ok, decision |-> decision, notified |-> notified,
     recorded |-> recorded, first_detected |-> first, at |-> now, calls |-> calls]

(* a faulty iteration: the alert is recorded whatever the notifier did *)
alert_calls_always_records(notified) ==
    <<"update_state", "add_tag_to_device", "should_send_alert", "get_first_move_time",
      "send_alert", "record_alert">>

(* the calls of an iteration that goes as far as the notifier: record_alert *)
(* follows send_alert when send_alert returned True                         *)
alert_calls(notified) ==
    <<"update_state", "add_tag_to_device", "should_send_alert", "get_first_move_time",
      "send_alert">> \o (IF notified = "ok" THEN <<"record_alert">> ELSE <<>>)

(* add_tag_to_device / remove_tag_from_device: the tag set when the call    *)
(* succeeds; a failure is logged and leaves the device as it was            *)
(* a faulty removal: the tag is taken off every device *)
remove_tag_from_all(t, dev, ok) == IF ok THEN {} ELSE t

add_tag_to_device(t, dev, ok) == IF ok THEN t \cup {dev} ELSE t
remove_tag_from_device(t, dev, ok) == IF ok THEN t \ {dev} ELSE t

(* a faulty threshold test: one observation too few confirms a move *)
below_threshold_early(counter, threshold) == counter + 1 < threshold

(* the threshold test of _process_events: the move is not yet confirmed *)
below_threshold(counter, threshold) == counter < threshold

(* an OK / OK_MLAG_PEER event: the counter is reset and the tag removed *)
ProcessOk ==
    /\ pc = "events"
    /\ LET event == Head(events)
           r == update_state(mac_state, event, now)
       IN  /\ event.status \in {"ok", "ok_mlag_peer"}
           /\ mac_state' = r.db
           /\ moves_run' = [moves_run EXCEPT ![event.mac] = next_moves_run(@, event)]
           /\ \E ok \in BOOLEAN :
                /\ tags' = remove_tag_from_device(tags, event.device_id, ok)
                /\ last' = Iteration(event, r.ret, FALSE, "remove", ok, None, "none",
                                     FALSE, None,
                                     <<"update_state", "remove_tag_from_device">>)
    /\ NextEvent
    /\ UNCHANGED <<run_vars, settings, now, alert_history, alert_seq, confirm_threshold, sent, cycles,
                   cyc_run, failed>>

(* a SUSPECT_UPLINK or NOT_FOUND event: the state is updated and nothing else *)
ProcessIgnored ==
    /\ pc = "events"
    /\ LET event == Head(events)
           r == update_state(mac_state, event, now)
       IN  /\ event.status \notin {"ok", "ok_mlag_peer"}
           /\ event.status # "move_detected"
           /\ mac_state' = r.db
           /\ moves_run' = [moves_run EXCEPT ![event.mac] = next_moves_run(@, event)]
           /\ last' = Iteration(event, r.ret, FALSE, "none", FALSE, None, "none",
                                FALSE, None, <<"update_state">>)
    /\ NextEvent
    /\ UNCHANGED <<run_vars, settings, now, alert_history, alert_seq, confirm_threshold, tags, sent, cycles,
                   cyc_run, failed>>

(* a MOVE_DETECTED event whose counter is below the threshold *)
ProcessUnconfirmed ==
    /\ pc = "events"
    /\ LET event == Head(events)
           r == update_state(mac_state, event, now)
       IN  /\ event.status = "move_detected"
           /\ below_threshold(r.ret, confirm_threshold)
           /\ mac_state' = r.db
           /\ moves_run' = [moves_run EXCEPT ![event.mac] = next_moves_run(@, event)]
           /\ last' = Iteration(event, r.ret, FALSE, "none", FALSE, None, "none",
                                FALSE, None, <<"update_state">>)
    /\ NextEvent
    /\ UNCHANGED <<run_vars, settings, now, alert_history, alert_seq, confirm_threshold, tags, sent, cycles,
                   cyc_run, failed>>

(* a confirmed move for which should_send_alert says no *)
ProcessSuppressed ==
    /\ pc = "events"
    /\ LET event == Head(events)
           r == update_state(mac_state, event, now)
           decision == should_send_alert(alert_history, event.mac, event.observed, now)
       IN  /\ event.status = "move_detected"
           /\ ~below_threshold(r.ret, confirm_threshold)
           /\ ~decision[1]
           /\ mac_state' = r.db
           /\ moves_run' = [moves_run EXCEPT ![event.mac] = next_moves_run(@, event)]
           /\ \E ok \in BOOLEAN :
                /\ tags' = add_tag_to_device(tags, event.device_id, ok)
                /\ last' = Iteration(event, r.ret, TRUE, "add", ok, Some(decision),
                                     "none", FALSE, None,
                                     <<"update_state", "add_tag_to_device",
                                       "should_send_alert">>)
    /\ NextEvent
    /\ UNCHANGED <<run_vars, settings, now, alert_history, alert_seq, confirm_threshold, sent, cycles,
                   cyc_run, failed>>

(* a loop that an exception of the notifier ends *)
events_after_raise(evs, notified) == IF notified = "raise" THEN <<>> ELSE Tail(evs)

(* try: send_alert ... except Exception: logger.error: the events left to   *)
(* the for loop once the notifier has delivered, reported failure or raised *)
events_after_alert(evs, notified) == Tail(evs)

(* a confirmed move whose alert is handed to the notifier; the notifier     *)
(* delivers it (and the alert is recorded), reports failure, or raises      *)
ProcessAlert ==
    /\ pc = "events"
    /\ LET event == Head(events)
           r == update_state(mac_state, event, now)
           decision == should_send_alert(alert_history, event.mac, event.observed, now)
           first == get_first_move_time(r.db, event.mac)
           first_detected == IF first = None THEN now ELSE first[1]
       IN  /\ event.status = "move_detected"
           /\ ~below_threshold(r.ret, confirm_threshold)
           /\ decision[1]
           /\ mac_state' = r.db
           /\ moves_run' = [moves_run EXCEPT ![event.mac] = next_moves_run(@, event)]
           /\ \E ok \in BOOLEAN, notified \in {"ok", "false", "raise"}, d \in 0..MaxSendDelay :
                /\ now + d <= MaxTime
                /\ now' = now + d
                /\ tags' = add_tag_to_device(tags, event.device_id, ok)
                /\ IF notified = "ok"
                   THEN failed' = failed
                   ELSE failed' = [failed EXCEPT ![event.device_id] =
                                      Some([observed |-> event.observed,
                                            is_reminder |-> decision[2],
                                            cycle |-> cycles])]
                /\ IF notified = "ok"
                   THEN sent' = Append(sent, [mac |-> event.mac,
                                              observed |-> event.observed,
                                              is_reminder |-> decision[2],
                                              consecutive_count |-> r.ret,
                                              first_detected |-> first_detected,
                                              at |-> now + d])
                   ELSE sent' = sent
                /\ IF "record_alert" \in Range(alert_calls(notified))
                   THEN /\ alert_history' = record_alert(alert_history, alert_seq, event.mac,
                                                         event.observed, decision[2], now + d)
                        /\ alert_seq' = alert_seq + 1
                   ELSE UNCHANGED <<alert_history, alert_seq>>
                /\ last' = Iteration(event, r.ret, TRUE, "add", ok, Some(decision),
                                     notified,
                                     "record_alert" \in Range(alert_calls(notified)),
                                     Some(first_detected), alert_calls(notified))
                /\ events' = events_after_alert(events, notified)
                /\ pc' = IF events_after_alert(events, notified) = <<>> THEN "sleep"
                         ELSE "events"
    /\ UNCHANGED <<run_vars, settings, confirm_threshold, cycles, cyc_run>>

(* run: the sleep between two cycles, at least poll_interval long *)
Sleep ==
    /\ pc = "sleep"
    /\ \E d \in 1..MaxSleep :
         /\ now + d <= MaxTime
         /\ now' = now + d
    /\ pc' = "idle"
    /\ last' = NoCall
    /\ failed' = [d \in DeviceIds |->
                     IF failed[d] # None /\ failed[d][1].cycle < cycles THEN None
                     ELSE failed[d]]
    /\ UNCHANGED <<run_vars, settings, db_vars, confirm_threshold, tags, events, sent, cycles, cyc_run,
                   moves_run>>

Next ==
    \/ BeginCycle
    \/ SkipCycle
    \/ ProcessOk
    \/ ProcessIgnored
    \/ ProcessUnconfirmed
    \/ ProcessSuppressed
    \/ ProcessAlert
    \/ Sleep

Spec == Init /\ [][Next]_vars

----------------------------------------------------------------------------
(* The poll loop on a store whose calls may fail (sqlite3.Error) *)

StoreFailure(call) == [op |-> "store_failure", call |-> call]

(* the store is taken to fail in the first MaxFaultCycles cycles only *)
StoreMayFail == cycles <= MaxFaultCycles

(* update_state, should_send_alert or get_first_move_time raises: nothing   *)
(* in _process_events catches it, so it reaches the handler of run_once,    *)
(* which logs it; the rest of the cycle is not run. What the iteration did  *)
(* before the failing call stays done.                                      *)
ProcessStoreFailure ==
    /\ pc = "events"
    /\ StoreMayFail
    /\ LET event == Head(events)
           r == update_state(mac_state, event, now)
           decision == should_send_alert(alert_history, event.mac, event.observed, now)
           confirmed == /\ event.status = "move_detected"
                        /\ ~below_threshold(r.ret, confirm_threshold)
       IN  \/ /\ last' = StoreFailure("update_state")
              /\ UNCHANGED <<mac_state, moves_run, tags>>
           \/ /\ confirmed
              /\ \E call \in {"should_send_alert", "get_first_move_time"} :
                    /\ call = "get_first_move_time" => decision[1]
                    /\ last' = StoreFailure(call)
              /\ mac_state' = r.db
              /\ moves_run' = [moves_run EXCEPT ![event.mac] = next_moves_run(@, event)]
              /\ \E ok \in BOOLEAN : tags' = add_tag_to_device(tags, event.device_id, ok)
    /\ events' = <<>>
    /\ pc' = "sleep"
    /\ UNCHANGED <<run_vars, settings, now, alert_history, alert_seq, confirm_threshold, sent, cycles,
                   cyc_run, failed>>

(* record_alert raises after send_alert returned True: the call stands      *)
(* inside the try block around send_alert, whose handler logs "Failed to    *)
(* send alert"; the loop goes on with the next event                        *)
ProcessRecordFailure ==
    /\ pc = "events"
    /\ StoreMayFail
    /\ LET event == Head(events)
           r == update_state(mac_state, event, now)
           decision == should_send_alert(alert_history, event.mac, event.observed, now)
           first == get_first_move_time(r.db, event.mac)
           first_detected == IF first = None THEN now ELSE first[1]
       IN  /\ event.status = "move_detected"
           /\ ~below_threshold(r.ret, confirm_threshold)
           /\ decision[1]
           /\ mac_state' = r.db
           /\ moves_run' = [moves_run EXCEPT ![event.mac] = next_moves_run(@, event)]
           /\ \E ok \in BOOLEAN : tags' = add_tag_to_device(tags, event.device_id, ok)
           /\ sent' = Append(sent, [mac |-> event.mac,
                                    observed |-> event.observed,
                                    is_reminder |-> decision[2],
                                    consecutive_count |-> r.ret,
                                    first_detected |-> first_detected,
                                    at |-> now])
           /\ last' = StoreFailure("record_alert")
    /\ NextEvent
    /\ UNCHANGED <<run_vars, settings, now, alert_history, alert_seq, confirm_threshold, cycles,
                   cyc_run, failed>>

NextFaults ==
    \/ Next
    \/ ProcessStoreFailure
    \/ ProcessRecordFailure

SpecFaults == Init /\ [][NextFaults]_vars

----------------------------------------------------------------------------
(* The correlator driven directly (as tests/test_correlator.py does) *)

(* the MLAG_GROUPS / UPLINK_* settings a Correlator is built with: those of *)
(* the tests, a switch that belongs to two groups, and a group written in   *)
(* another case                                                             *)
CorrSettings ==
    {TestSettings,
     Settings({"Ethernet49", "Ethernet50"}, <<"uplink", "trunk">>,
              << <<"switch1", "switch2">>, <<"switch2", "switch3">> >>),
     Settings({"Ethernet49"}, <<"trunk">>, << <<"Switch1", "SWITCH3">> >>)}

(* the switches of the FDB data and the entries they may hold *)
FdbSwitchNames == {"switch1", "switch2", "switch3"}

FdbEntryKinds ==
    {FdbEntry(MacA, port, Some(100)) :
        port \in {"Ethernet1", "Eth1", "Ethernet5", "Ethernet49", "Eth-Trunk1"}}
    \cup {FdbEntry(MacB, "Ethernet5", Some(200))}

EntrySeqs(n) == UNION {[1..k -> FdbEntryKinds] : k \in 1..n}

(* the SwitchFdb of a switch: its entries, or an error; the dataclass lets  *)
(* an errored SwitchFdb hold entries (models.py), here the MAC on Ethernet1 *)
SwitchFdbs(n, names) ==
    {SwitchFdb(sw, es, None) : sw \in names, es \in EntrySeqs(n)}
    \cup {SwitchFdb(sw, <<FdbEntry(MacA, "Ethernet1", Some(100))>>, Some("timeout")) :
             sw \in names}

(* the FDB data whose entries and failed switches number at most n, on      *)
(* switches out of names, in every order                                    *)
RECURSIVE FdbsOf(_, _)
FdbsOf(n, names) ==
    {<<>>} \cup
    (IF n = 0 THEN {}
     ELSE UNION {{<<fdb>> \o rest :
                     rest \in FdbsOf(n - (IF fdb.error = None THEN Len(fdb.entries) ELSE 1),
                                     names \ {fdb.switch_name})} :
                 fdb \in SwitchFdbs(n, names)})

CorrFdbs == FdbsOf(MaxFdbEntries, FdbSwitchNames)

(* the expected endpoints of a server: none, its port, its port written in  *)
(* another case and form, an uplink port, a port of the MLAG peer           *)
CorrExpected ==
    {None,
     Some(ExpectedEndpoint("switch1", "Ethernet1")),
     Some(ExpectedEndpoint("Switch1", "ethernet1")),
     Some(ExpectedEndpoint("switch1", "Ethernet49")),
     Some(ExpectedEndpoint("switch2", "Ethernet1"))}

CorrServers ==
    {<<ServerIpmi(1, "srv1", MacA, e)>> : e \in CorrExpected}
    \cup
    {<<ServerIpmi(1, "srv1", "AA:BB:CC:DD:EE:01", Cabled)>>,
     <<ServerIpmi(2, "srv2", MacB, None), ServerIpmi(1, "srv1", MacA, Cabled)>>}

(* the switch names _is_mlag_peer is asked about *)
PeerNames == {"switch1", "SWITCH1", "switch2", "switch3", "switch4"}

(* the calls made on the correlator: the function called and its arguments *)
CorrCalls ==
    {[op |-> "call_correlate", servers |-> servers, fdb_data |-> fdb_data] :
        servers \in CorrServers, fdb_data \in CorrFdbs}
    \cup
    {[op |-> "call_is_mlag_peer", switch1 |-> switch1, switch2 |-> switch2] :
        switch1 \in PeerNames, switch2 \in PeerNames}

(* Correlator(settings), and the call about to be made on it; the correlator *)
(* keeps nothing from one call to the next                                   *)
InitCorrelate ==
    /\ now = 0
    /\ mac_state = NoRows
    /\ alert_history = <<>>
    /\ alert_seq = 0
    /\ last \in CorrCalls
    /\ moves_run = NoRuns
    /\ confirm_threshold = 1
    /\ tags = {}
    /\ pc = "idle"
    /\ events = <<>>
    /\ sent = <<>>
    /\ cycles = 0
    /\ cyc_run = [n |-> 0, observed |-> None]
    /\ failed = NoFailed
    /\ Constructed
    /\ settings \in CorrSettings

CallCorrelate ==
    /\ last.op = "call_correlate"
    /\ last' = [op |-> "correlate", servers |-> last.servers, fdb_data |-> last.fdb_data,
                events |-> correlate(settings, last.servers, last.fdb_data)]
    /\ UNCHANGED <<run_vars, settings, now, db_vars, loop_vars, moves_run>>

CallIsMlagPeer ==
    /\ last.op = "call_is_mlag_peer"
    /\ last' = [op |-> "is_mlag_peer", switch1 |-> last.switch1, switch2 |-> last.switch2,
                ret |-> is_mlag_peer(settings, last.switch1, last.switch2)]
    /\ UNCHANGED <<run_vars, settings, now, db_vars, loop_vars, moves_run>>

NextCorrelate ==
    \/ CallCorrelate
    \/ CallIsMlagPeer

SpecCorrelate == InitCorrelate /\ [][NextCorrelate]_vars

----------------------------------------------------------------------------
(* models.py driven directly (as tests/test_models.py does) *)

(* port names: a long or short prefix of the table in any case, or none,    *)
(* then text that may complete a prefix, then the port number; blanks       *)
(* around the whole                                                         *)
NameHeads ==
    {PORT_PREFIXES[i][1] : i \in 1..Len(PORT_PREFIXES)}
    \cup {PORT_PREFIXES[i][2] : i \in 1..Len(PORT_PREFIXES)}
    \cup {"gigabitethernet", "ETHERNET", "ethernet", "ge", "xe-", ""}

NameMids == {"", "ernet", "rt-channel"}
NameTails == {"1", "0/0/7"}
NamePads == {"", " "}

PortNames ==
    {pad \o head \o mid \o tail \o pad :
        pad \in NamePads, head \in NameHeads, mid \in NameMids, tail \in NameTails}

(* the endpoints matches is called with *)
MatchSwitches == {"switch1", "Switch1", "switch2"}
MatchPorts ==
    {"Ethernet1", "ETHERNET1", "ethernet1", "Eth1", "Ethernet2", "GigabitEthernet0/0/7",
     "GE0/0/7"}

ModelCalls ==
    {[op |-> "call_normalize_port_name", name |-> name] : name \in PortNames}
    \cup
    {[op |-> "call_matches", observed |-> ObservedEndpoint(sw, port, None),
      expected |-> expected] :
        sw \in MatchSwitches, port \in MatchPorts,
        expected \in {None} \cup {Some(ExpectedEndpoint(esw, eport)) :
                                     esw \in MatchSwitches, eport \in MatchPorts}}

InitModels ==
    /\ now = 0
    /\ mac_state = NoRows
    /\ alert_history = <<>>
    /\ alert_seq = 0
    /\ last \in ModelCalls
    /\ moves_run = NoRuns
    /\ LoopIdle

(* normalize_port_name(name), and the function applied to its own result *)
CallNormalizePortName ==
    /\ last.op = "call_normalize_port_name"
    /\ last' = [op |-> "normalize_port_name", name |-> last.name,
                ret |-> normalize_port_name(last.name),
                again |-> normalize_port_name(normalize_port_name(last.name))]
    /\ UNCHANGED <<run_vars, settings, now, db_vars, loop_vars, moves_run>>

CallMatches ==
    /\ last.op = "call_matches"
    /\ last' = [op |-> "matches", observed |-> last.observed, expected |-> last.expected,
                ret |-> matches(last.observed, last.expected)]
    /\ UNCHANGED <<run_vars, settings, now, db_vars, loop_vars, moves_run>>

NextModels ==
    \/ CallNormalizePortName
    \/ CallMatches

SpecModels == InitModels /\ [][NextModels]_vars

----------------------------------------------------------------------------
(* snmp_collector.py: SnmpCollector *)

(* the OIDs that are walked *)
IF_NAME == "ifName"
IF_DESCR == "ifDescr"
DOT1D_BASE_PORT_IF_INDEX == "dot1dBasePortIfIndex"
DOT1Q_TP_FDB_PORT == "dot1qTpFdbPort"
DOT1D_TP_FDB_PORT == "dot1dTpFdbPort"
DOT1D_TP_FDB_ADDRESS == "dot1dTpFdbAddress"
Oids ==
    {IF_NAME, IF_DESCR, DOT1D_BASE_PORT_IF_INDEX, DOT1Q_TP_FDB_PORT, DOT1D_TP_FDB_PORT,
     DOT1D_TP_FDB_ADDRESS}

(* a dict in insertion order is a sequence of <<key, value>>; dict.get(k, default) *)
dict_get(d, k, default) ==
    IF \E i \in 1..Len(d) : d[i][1] = k
    THEN d[CHOOSE i \in 1..Len(d) : d[i][1] = k][2]
    ELSE default

(* results[key] = value *)
dict_set(d, k, v) ==
    IF \E i \in 1..Len(d) : d[i][1] = k
    THEN [i \in 1..Len(d) |-> IF d[i][1] = k THEN <<k, v>> ELSE d[i]]
    ELSE Append(d, <<k, v>>)

HexDigits == "0123456789abcdef"
hex_digit(n) == SubSeq(HexDigits, n + 1, n + 1)

(* bytes.hex() *)
RECURSIVE bytes_hex(_)
bytes_hex(octets) ==
    IF octets = <<>> THEN ""
    ELSE hex_digit(Head(octets) \div 16) \o hex_digit(Head(octets) % 16)
            \o bytes_hex(Tail(octets))

(* str.replace(ch, "") for the separators "-", ":" and "." *)
RECURSIVE drop_separators(_)
drop_separators(s) ==
    IF Len(s) = 0 THEN ""
    ELSE (IF SubSeq(s, 1, 1) \in {"-", ":", "."} THEN "" ELSE SubSeq(s, 1, 1))
            \o drop_separators(SubSeq(s, 2, Len(s)))

(* ":".join(mac[i : i + 2] for i in range(0, 12, 2)); a slice past the end is short *)
RECURSIVE join_pairs(_, _)
join_pairs(mac, i) ==
    LET pair == SubSeq(mac, i + 1, IF i + 2 <= Len(mac) THEN i + 2 ELSE Len(mac))
    IN  IF i >= 10 THEN pair ELSE pair \o ":" \o join_pairs(mac, i + 2)

(* _normalize_mac of bytes, and of a str *)
normalize_mac_bytes(octets) == join_pairs(bytes_hex(octets), 0)
normalize_mac_str(s) == join_pairs(drop_separators(lower(s)), 0)

(* OctetString.prettyPrint() of a MAC address *)
prettyPrint(octets) == "0x" \o bytes_hex(octets)

(* _walk_oid on a switch whose agent answers this walk ("ok"), does not     *)
(* answer or reports an error (error_indication / error_status: the loop is *)
(* left with what was gathered, here nothing), or when the request raises   *)
walk_oid(agent, profile, oid) ==
    [raised |-> profile[oid] = "raise",
     results |-> IF profile[oid] = "ok" THEN agent[oid] ELSE <<>>]

(* the rows whose OID suffix is one arc, which int(suffix) accepts, keyed by it *)
int_keyed(results) ==
    LET one_arc(row) == Len(row[1]) = 1
        rows == SelectSeq(results, one_arc)
    IN  [i \in 1..Len(rows) |-> <<rows[i][1][1], rows[i][2]>>]

get_interface_names(agent, profile) ==
    LET names == walk_oid(agent, profile, IF_NAME)
        result == int_keyed(names.results)
        descrs == walk_oid(agent, profile, IF_DESCR)
    IN  IF names.raised THEN [raised |-> TRUE, value |-> <<>>]
        ELSE IF result # <<>> THEN [raised |-> FALSE, value |-> result]
        ELSE IF descrs.raised THEN [raised |-> TRUE, value |-> <<>>]
        ELSE [raised |-> FALSE, value |-> int_keyed(descrs.results)]

get_bridge_port_mapping(agent, profile) ==
    LET mapping == walk_oid(agent, profile, DOT1D_BASE_PORT_IF_INDEX)
    IN  [raised |-> mapping.raised, value |-> int_keyed(mapping.results)]

(* the name of the port behind a bridge port *)
port_name_of(if_names, bridge_ports, bridge_port) ==
    LET if_index == dict_get(bridge_ports, bridge_port, bridge_port)
    IN  dict_get(if_names, if_index, "port" \o ToString(bridge_port))

(* the body of the try block of collect_fdb: the walks in order, the first  *)
(* that raises ending the block                                             *)
collect_fdb_try(switch_name, agent, profile) ==
    LET if_names == get_interface_names(agent, profile)
        bridge_ports == get_bridge_port_mapping(agent, profile)
        qbridge_fdb == walk_oid(agent, profile, DOT1Q_TP_FDB_PORT)
        fdb_ports == walk_oid(agent, profile, DOT1D_TP_FDB_PORT)
        fdb_macs == walk_oid(agent, profile, DOT1D_TP_FDB_ADDRESS)
        long_enough(row) == Len(row[1]) >= 7
        q_rows == SelectSeq(qbridge_fdb.results, long_enough)
        has_mac(row) == dict_get(fdb_macs.results, row[1], None) # None
        d_rows == SelectSeq(fdb_ports.results, has_mac)
        q_entries ==
            [i \in 1..Len(q_rows) |->
                FdbEntry(normalize_mac_bytes(SubSeq(q_rows[i][1], 2, 7)),
                         port_name_of(if_names.value, bridge_ports.value, q_rows[i][2]),
                         Some(q_rows[i][1][1]))]
        d_entries ==
            [i \in 1..Len(d_rows) |->
                LET mac_hex == prettyPrint(dict_get(fdb_macs.results, d_rows[i][1], None))
                IN  FdbEntry(normalize_mac_str(SubSeq(mac_hex, 3, Len(mac_hex))),
                             port_name_of(if_names.value, bridge_ports.value, d_rows[i][2]),
                             None)]
    IN  IF if_names.raised \/ bridge_ports.raised \/ qbridge_fdb.raised
        THEN [raised |-> TRUE, value |-> None]
        ELSE IF qbridge_fdb.results # <<>>
        THEN [raised |-> FALSE, value |-> Some(SwitchFdb(switch_name, q_entries, None))]
        ELSE IF fdb_ports.raised \/ fdb_macs.raised
        THEN [raised |-> TRUE, value |-> None]
        ELSE [raised |-> FALSE, value |-> Some(SwitchFdb(switch_name, d_entries, None))]

(* collect_fdb without its except clause *)
collect_fdb_uncaught(switch_name, agent, profile) ==
    collect_fdb_try(switch_name, agent, profile)

(* one execution of the function collect_fdb: try ... except Exception *)
collect_fdb_once(switch_name, agent, profile) ==
    LET block == collect_fdb_try(switch_name, agent, profile)
    IN  IF block.raised
        THEN [raised |-> FALSE, value |-> Some(SwitchFdb(switch_name, <<>>, Some("error")))]
        ELSE block

(* @retry(stop=stop_after_attempt(2)) def collect_fdb; profiles[k] is how    *)
(* the network behaves during the k-th execution                           *)
collect_fdb(switch_name, agent, profiles) ==
    retrying(2, [k \in 1..Len(profiles) |-> collect_fdb_once(switch_name, agent, profiles[k])],
             1)

(* collect_all: the dict of results, the number of executions of           *)
(* collect_fdb per switch, and whether an exception left the loop          *)
RECURSIVE collect_all_from(_, _, _, _)
collect_all_from(switches, agents, network, acc) ==
    IF switches = <<>> THEN acc
    ELSE LET switch == Head(switches)
             fdb == collect_fdb(switch, agents[switch], network[switch])
         IN  IF fdb.raised
             THEN [acc EXCEPT !.raised = TRUE,
                              !.attempts = dict_set(@, switch, fdb.attempts)]
             ELSE collect_all_from(Tail(switches), agents, network,
                                   [acc EXCEPT !.results = dict_set(@, switch, fdb.value[1]),
                                               !.attempts = dict_set(@, switch, fdb.attempts)])

collect_all(switches, agents, network) ==
    collect_all_from(switches, agents, network,
                     [raised |-> FALSE, results |-> <<>>, attempts |-> <<>>])

(* run_once, step 3: the number of switches counted as collected *)
successful(results) ==
    Cardinality({i \in 1..Len(results) : results[i][2].error = None})

----------------------------------------------------------------------------
(* FDB collection over SNMP: collect_all and the correlation of what it     *)
(* returns (run_once, steps 3 and 4), for each agent and network drawn      *)

MacAOctets == <<170, 187, 204, 221, 238, 1>>

(* the tables of a switch agent: one interface (ifIndex 101, bridge port 1) *)
(* and, when learned, the MAC behind it, in the Q-BRIDGE table or in the    *)
(* BRIDGE-MIB tables                                                        *)
Agent(port_name, qbridge, learned) ==
    [oid \in Oids |->
        CASE oid = IF_NAME -> << << <<101>>, port_name >> >>
          [] oid = IF_DESCR -> << << <<101>>, port_name >> >>
          [] oid = DOT1D_BASE_PORT_IF_INDEX -> << << <<1>>, 101 >> >>
          [] oid = DOT1Q_TP_FDB_PORT ->
                IF qbridge /\ learned THEN << << <<100>> \o MacAOctets, 1 >> >> ELSE <<>>
          [] oid = DOT1D_TP_FDB_PORT ->
                IF ~qbridge /\ learned THEN << << MacAOctets, 1 >> >> ELSE <<>>
          [] oid = DOT1D_TP_FDB_ADDRESS ->
                IF ~qbridge /\ learned THEN << << MacAOctets, MacAOctets >> >> ELSE <<>>]

AgentsOf ==
    [switch1 : {Agent("Ethernet1", TRUE, TRUE), Agent("Ethernet1", FALSE, TRUE),
                Agent("Ethernet1", TRUE, FALSE)},
     switch2 : {Agent("Ethernet10", TRUE, TRUE), Agent("Ethernet10", TRUE, FALSE)}]

(* how the walks of one execution of collect_fdb go: all answered, one not  *)
(* answered or raising, no interface table answered, or none answered at all *)
AllOk == [oid \in Oids |-> "ok"]
NoNames == [oid \in Oids |-> IF oid \in {IF_NAME, IF_DESCR} THEN "timeout" ELSE "ok"]
AllTimeout == [oid \in Oids |-> "timeout"]
Profiles ==
    {AllOk, NoNames, AllTimeout}
    \cup {[AllOk EXCEPT ![oid] = outcome] : oid \in Oids, outcome \in {"timeout", "raise"}}

(* the network during the first and a second execution of collect_fdb: the *)
(* failure is gone by the second, or it lasts                              *)
Attempts == {<<p, AllOk>> : p \in Profiles} \cup {<<p, p>> : p \in Profiles}
Networks == [switch1 : Attempts, switch2 : Attempts]

SwitchLists == {<<"switch1">>, <<"switch1", "switch2">>}

CollectServers == <<ServerIpmi(1, "server1", MacA, Cabled)>>

CollectCalls ==
    {[op |-> "call_collect_all", switches |-> switches, agents |-> agents, network |-> network] :
        switches \in SwitchLists, agents \in AgentsOf, network \in Networks}

(* fdb_data.values() *)
dict_values(d) == [i \in 1..Len(d) |-> d[i][2]]

InitCollect ==
    /\ now = 0
    /\ mac_state = NoRows
    /\ alert_history = <<>>
    /\ alert_seq = 0
    /\ last \in CollectCalls
    /\ moves_run = NoRuns
    /\ confirm_threshold = 1
    /\ tags = {}
    /\ pc = "idle"
    /\ events = <<>>
    /\ sent = <<>>
    /\ cycles = 0
    /\ cyc_run = [n |-> 0, observed |-> None]
    /\ failed = NoFailed
    /\ Constructed
    /\ settings = TestSettings

(* run_once, steps 3 and 4 *)
CollectAndCorrelate ==
    /\ last.op = "call_collect_all"
    /\ LET fdb_data == collect_all(last.switches, last.agents, last.network)
       IN  last' = [op |-> "collect_all", switches |-> last.switches, agents |-> last.agents,
                    network |-> last.network, raised |-> fdb_data.raised,
                    results |-> fdb_data.results, attempts |-> fdb_data.attempts,
                    successful |-> successful(fdb_data.results),
                    events |-> IF fdb_data.raised THEN <<>>
                               ELSE correlate(settings, CollectServers,
                                              dict_values(fdb_data.results))]
    /\ UNCHANGED <<run_vars, settings, now, db_vars, loop_vars, moves_run>>

NextCollect == CollectAndCorrelate

SpecCollect == InitCollect /\ [][NextCollect]_vars

----------------------------------------------------------------------------
(* main.py: IpmiMoveAuditor.run, the process from its start to its exit,    *)
(* with the signals that may arrive at any moment.  What a cycle does to    *)
(* the store and to the inventory is in Spec; here a cycle is its control   *)
(* flow: the steps that may raise, and the events it goes through.          *)

(* a handler that flips the flag *)
signal_handler_toggle(flag) == ~flag

(* _signal_handler: the value it gives to _running *)
signal_handler(flag) == FALSE

(* a run_once that lets the exception through, up to main() *)
run_once_uncaught(step, notified) ==
    [pc |-> "exited", exit_code |-> Some(1),
     last |-> [op |-> "run_once", raised |-> TRUE, step |-> step, notified |-> notified]]

(* run_once, except Exception: the exception of a step is logged, the error *)
(* notification is attempted and its own failure is passed over; run_once   *)
(* returns                                                                  *)
run_once_except(step, notified) ==
    [pc |-> "after", exit_code |-> None,
     last |-> [op |-> "run_once", raised |-> TRUE, step |-> step, notified |-> notified]]

(* run_once returned without an exception *)
Returned == [op |-> "run_once", raised |-> FALSE, step |-> 0, notified |-> FALSE]

(* the process is started in one of the environments *)
InitRun ==
    /\ now = 0
    /\ mac_state = NoRows
    /\ alert_history = <<>>
    /\ alert_seq = 0
    /\ last = NoCall
    /\ moves_run = NoRuns
    /\ confirm_threshold = 1
    /\ settings = TestSettings
    /\ failed = NoFailed
    /\ tags = {}
    /\ pc = "main"
    /\ events = <<>>
    /\ sent = <<>>
    /\ cycles = 0
    /\ cyc_run = [n |-> 0, observed |-> None]
    /\ running = TRUE
    /\ sleep_left = 0
    /\ exit_code = None
    /\ env \in Envs

(* main(): get_settings() and IpmiMoveAuditor() inside try, any exception   *)
(* of which is printed and ends the process with sys.exit(1); otherwise     *)
(* run() is entered and installs the signal handlers                        *)
Main ==
    /\ pc = "main"
    /\ LET raised == get_settings(env).raised \/ correlator_init(env).raised
       IN  /\ last' = [op |-> "main", raised |-> raised]
           /\ pc' = IF raised THEN "exited" ELSE "startup"
           /\ exit_code' = IF raised THEN Some(1) ELSE None
    /\ UNCHANGED <<running, sleep_left, env, settings, now, db_vars, confirm_threshold, tags,
                   events, sent, cycles, cyc_run, failed, moves_run>>

(* SIGTERM or SIGINT is delivered once run() has installed the handler *)
Signal ==
    /\ pc \notin {"main", "exited"}
    /\ running' = signal_handler(running)
    /\ UNCHANGED <<sleep_left, exit_code, env, settings, now, db_vars, loop_vars, last, moves_run>>

(* run: the startup notification and cleanup_old_alerts, which no handler   *)
(* in run guards: an exception of the store ends the process in main()      *)
Startup ==
    /\ pc = "startup"
    /\ \E raised \in BOOLEAN :
         /\ last' = [op |-> "startup", raised |-> raised]
         /\ pc' = IF raised THEN "exited" ELSE "loop"
         /\ exit_code' = IF raised THEN Some(1) ELSE None
    /\ UNCHANGED <<running, sleep_left, env, settings, now, db_vars, confirm_threshold, tags,
                   events, sent, cycles, cyc_run, failed, moves_run>>

(* while self._running: ... sys.exit(0) *)
LoopHead ==
    /\ pc = "loop"
    /\ pc' = IF running THEN "run_once" ELSE "exited"
    /\ exit_code' = IF running THEN None ELSE Some(0)
    /\ last' = IF running THEN NoCall ELSE last
    /\ UNCHANGED <<running, sleep_left, env, settings, now, db_vars, confirm_threshold, tags,
                   events, sent, cycles, cyc_run, failed, moves_run>>

(* run_once, steps 1-4: a step raises, a listing is empty, or the events of *)
(* the cycle are there; get_switches, step 2, raises at each of its         *)
(* attempts when parse_selector does.  An exception raised outside the try  *)
(* of run_once or inside its handlers reaches run, which logs it and sleeps *)
(* 60 seconds                                                               *)
RunOnce ==
    /\ pc = "run_once"
    /\ \/ \E step \in 1..4, notified \in BOOLEAN :
            /\ parse_selector(env.switches_selector).raised => step <= 2
            /\ pc' = run_once_except(step, notified).pc
            /\ exit_code' = run_once_except(step, notified).exit_code
            /\ last' = run_once_except(step, notified).last
            /\ events' = <<>>
            /\ UNCHANGED sleep_left
       \/ /\ pc' = "after"
          /\ last' = Returned
          /\ UNCHANGED <<events, exit_code, sleep_left>>
       \/ /\ pc' = "backoff"
          /\ sleep_left' = BackoffSeconds
          /\ last' = [op |-> "run", raised |-> TRUE, running |-> running]
          /\ events' = <<>>
          /\ UNCHANGED exit_code
       \/ \E c \in CycleCorrelations :
            /\ ~parse_selector(env.switches_selector).raised
            /\ c.settings = settings
            /\ events' = c.events
            /\ pc' = "events"
            /\ last' = NoCall
            /\ UNCHANGED <<exit_code, sleep_left>>
    /\ UNCHANGED <<running, env, settings, now, db_vars, confirm_threshold, tags,
                   sent, cycles, cyc_run, failed, moves_run>>

(* run_once, step 5: _process_events handles the next event, which may      *)
(* raise, and returns after the last; it does not read _running             *)
ProcessEvent ==
    /\ pc = "events"
    /\ IF events = <<>>
       THEN /\ pc' = "after"
            /\ last' = Returned
            /\ UNCHANGED <<events, exit_code>>
       ELSE \/ /\ events' = Tail(events)
               /\ last' = [op |-> "event", device_id |-> Head(events).device_id]
               /\ UNCHANGED <<pc, exit_code>>
            \/ \E notified \in BOOLEAN :
                 /\ pc' = run_once_except(5, notified).pc
                 /\ exit_code' = run_once_except(5, notified).exit_code
                 /\ last' = run_once_except(5, notified).last
                 /\ events' = <<>>
    /\ UNCHANGED <<running, sleep_left, env, settings, now, db_vars, confirm_threshold, tags,
                   sent, cycles, cyc_run, failed, moves_run>>

(* if self._running: the sleep of poll_interval seconds begins *)
AfterCycle ==
    /\ pc = "after"
    /\ pc' = IF running THEN "sleeping" ELSE "loop"
    /\ sleep_left' = IF running THEN PollInterval ELSE 0
    /\ UNCHANGED <<running, exit_code, env, settings, now, db_vars, confirm_threshold, tags,
                   events, sent, cycles, cyc_run, failed, moves_run, last>>

(* for _ in range(poll_interval): if not self._running: break; time.sleep(1) *)
SleepTick ==
    /\ pc = "sleeping"
    /\ IF sleep_left = 0 \/ ~running
       THEN pc' = "loop" /\ sleep_left' = 0
       ELSE pc' = "sleeping" /\ sleep_left' = sleep_left - 1
    /\ UNCHANGED <<running, exit_code, env, settings, now, db_vars, confirm_threshold, tags,
                   events, sent, cycles, cyc_run, failed, moves_run, last>>

(* time.sleep(60): no second of it reads _running *)
Backoff ==
    /\ pc = "backoff"
    /\ IF sleep_left = 0
       THEN pc' = "loop" /\ sleep_left' = 0
       ELSE pc' = "backoff" /\ sleep_left' = sleep_left - 1
    /\ UNCHANGED <<running, exit_code, env, settings, now, db_vars, confirm_threshold, tags,
                   events, sent, cycles, cyc_run, failed, moves_run, last>>

(* the steps of the process itself *)
ProcessStep ==
    \/ Main
    \/ Startup
    \/ LoopHead
    \/ RunOnce
    \/ ProcessEvent
    \/ AfterCycle
    \/ SleepTick
    \/ Backoff

NextRun ==
    \/ Signal
    \/ ProcessStep

(* every call of the process returns and its next step is taken; nothing    *)
(* obliges a signal to arrive                                               *)
SpecRun == InitRun /\ [][NextRun]_vars /\ WF_vars(ProcessStep)

----------------------------------------------------------------------------
(* netbox_client.py: tag management.  NetBox is its table of tags, a        *)
(* sequence of [id, name, slug], and per device the ids of the tags it      *)
(* carries, None for a device id that NetBox does not know.  A request      *)
(* raises where `outcome` says: "tags" (extras.tags), "device"              *)
(* (dcim.devices.get) or "save" (device.save); "ok" is no failure.          *)

(* str.replace(" ", "-") *)
RECURSIVE dashes(_)
dashes(s) ==
    IF Len(s) = 0 THEN ""
    ELSE (IF SubSeq(s, 1, 1) = " " THEN "-" ELSE SubSeq(s, 1, 1)) \o dashes(SubSeq(s, 2, Len(s)))

(* tag_name.lower().replace(" ", "-") *)
tag_slug(tag_name) == dashes(lower(tag_name))

(* the largest id of a table, 0 for none *)
max_id(table) ==
    IF table = <<>> THEN 0
    ELSE CHOOSE n \in {table[i].id : i \in 1..Len(table)} :
            \A i \in 1..Len(table) : table[i].id <= n

(* _ensure_tag_exists: the id of the tag with the slug, created if there is *)
(* none; NetBox refuses a second tag of one name                            *)
ensure_tag_exists(table, tag_name, slug, outcome) ==
    LET existing == {i \in 1..Len(table) : table[i].slug = slug}
        created == [id |-> max_id(table) + 1, name |-> tag_name, slug |-> slug]
    IN  IF outcome = "tags" THEN [raised |-> TRUE, table |-> table, id |-> 0]
        ELSE IF existing # {}
        THEN [raised |-> FALSE, table |-> table, id |-> table[CHOOSE i \in existing : TRUE].id]
        ELSE IF \E i \in 1..Len(table) : table[i].name = tag_name
        THEN [raised |-> TRUE, table |-> table, id |-> 0]
        ELSE [raised |-> FALSE, table |-> Append(table, created), id |-> created.id]

(* a faulty add: the device is left with the one tag *)
add_tag_alone(nb, device_id, tag_name, outcome) ==
    LET tag == ensure_tag_exists(nb.tags, tag_name, tag_slug(tag_name), outcome)
    IN  IF tag.raised \/ outcome # "ok" \/ nb.devices[device_id] = None
        THEN [nb |-> nb, ret |-> FALSE]
        ELSE [nb |-> [tags |-> tag.table,
                      devices |-> [nb.devices EXCEPT ![device_id] = Some(<<tag.id>>)]],
              ret |-> TRUE]

(* add_tag_to_device(device_id, tag_name): NetBox after the call and the    *)
(* value returned; every exception ends in `return False`                   *)
add_tag(nb, device_id, tag_name, outcome) ==
    LET tag == ensure_tag_exists(nb.tags, tag_name, tag_slug(tag_name), outcome)
        known == [nb EXCEPT !.tags = tag.table]
        device == nb.devices[device_id]
    IN  IF tag.raised THEN [nb |-> nb, ret |-> FALSE]
        ELSE IF outcome = "device" \/ device = None THEN [nb |-> known, ret |-> FALSE]
        ELSE IF \E i \in 1..Len(device[1]) : device[1][i] = tag.id
        THEN [nb |-> known, ret |-> TRUE]
        ELSE IF outcome = "save" THEN [nb |-> known, ret |-> FALSE]
        ELSE [nb |-> [known EXCEPT !.devices[device_id] = Some(Append(device[1], tag.id))],
              ret |-> TRUE]

(* the slug of the tag with an id *)
slug_of(table, id) == table[CHOOSE i \in 1..Len(table) : table[i].id = id].slug

(* remove_tag_from_device(device_id, tag_name) *)
remove_tag(nb, device_id, tag_name, outcome) ==
    LET device == nb.devices[device_id]
        other(id) == slug_of(nb.tags, id) # tag_slug(tag_name)
    IN  IF outcome = "device" \/ device = None THEN [nb |-> nb, ret |-> FALSE]
        ELSE IF \A i \in 1..Len(device[1]) : other(device[1][i]) THEN [nb |-> nb, ret |-> TRUE]
        ELSE IF outcome = "save" THEN [nb |-> nb, ret |-> FALSE]
        ELSE [nb |-> [nb EXCEPT !.devices[device_id] = Some(SelectSeq(device[1], other))],
              ret |-> TRUE]

(* NetBox before the call: a tag of no concern, with or without the move    *)
(* tag, or with a tag of that name under a slug of its own; device 1 with   *)
(* some of the tags, device 2 unknown                                       *)
TagTables ==
    {<<[id |-> 1, name |-> "prod", slug |-> "prod"]>>,
     <<[id |-> 1, name |-> "prod", slug |-> "prod"],
       [id |-> 2, name |-> "IPMI Moved", slug |-> "ipmi-moved"]>>,
     <<[id |-> 1, name |-> "prod", slug |-> "prod"],
       [id |-> 2, name |-> "IPMI Moved", slug |-> "ipmi_moved"]>>}

NetBoxes ==
    {[tags |-> table, devices |-> [d \in DeviceIds |-> IF d = 1 THEN Some(ids) ELSE None]] :
        table \in TagTables, ids \in {<<>>, <<1>>, <<2>>, <<1, 2>>, <<2, 1>>}}

TagCalls ==
    {[op |-> op, nb |-> nb, device_id |-> d, tag_name |-> name, outcome |-> outcome] :
        op \in {"call_add_tag", "call_remove_tag"},
        nb \in {n \in NetBoxes : \A i \in 1..Len(n.devices[1][1]) : n.devices[1][1][i] <= Len(n.tags)},
        d \in DeviceIds, name \in {"IPMI Moved", "ipmi moved"},
        outcome \in {"ok", "tags", "device", "save"}}

InitTags ==
    /\ now = 0
    /\ mac_state = NoRows
    /\ alert_history = <<>>
    /\ alert_seq = 0
    /\ last \in TagCalls
    /\ moves_run = NoRuns
    /\ LoopIdle

(* the call, and the same call once more on what it left *)
CallAddTag ==
    /\ last.op = "call_add_tag"
    /\ LET r == add_tag(last.nb, last.device_id, last.tag_name, last.outcome)
       IN  last' = [op |-> "add_tag", before |-> last.nb, device_id |-> last.device_id,
                    tag_name |-> last.tag_name, outcome |-> last.outcome,
                    after |-> r.nb, ret |-> r.ret,
                    again |-> add_tag(r.nb, last.device_id, last.tag_name, "ok")]
    /\ UNCHANGED <<run_vars, settings, now, db_vars, loop_vars, moves_run>>

CallRemoveTag ==
    /\ last.op = "call_remove_tag"
    /\ LET r == remove_tag(last.nb, last.device_id, last.tag_name, last.outcome)
       IN  last' = [op |-> "remove_tag", before |-> last.nb, device_id |-> last.device_id,
                    tag_name |-> last.tag_name, outcome |-> last.outcome,
                    after |-> r.nb, ret |-> r.ret,
                    again |-> remove_tag(r.nb, last.device_id, last.tag_name, "ok")]
    /\ UNCHANGED <<run_vars, settings, now, db_vars, loop_vars, moves_run>>

NextTags ==
    \/ CallAddTag
    \/ CallRemoveTag

SpecTags == InitTags /\ [][NextTags]_vars


----------------------------------------------------------------------------
(* snmp_collector.py: the port name of an FDB row, for each interface table *)
(* and bridge-port table drawn                                              *)

(* ifName as collect_fdb holds it: the management interface (ifIndex 1) and *)
(* a front port (ifIndex 101), either of them possibly missing              *)
IfNameTables ==
    {<<>>, << <<1, "Management1">> >>, << <<101, "Ethernet1">> >>,
     << <<1, "Management1">>, <<101, "Ethernet1">> >>}

(* dot1dBasePortIfIndex as collect_fdb holds it: bridge port 1 is the front *)
(* port, bridge port 2 an interface without a name                          *)
BridgePortTables ==
    {<<>>, << <<1, 101>> >>, << <<2, 102>> >>, << <<1, 101>>, <<2, 102>> >>}

(* the bridge ports an FDB row may carry *)
BridgePorts == 1..4

PortCalls ==
    {[op |-> "call_port_name", if_names |-> if_names, bridge_ports |-> bridge_ports,
      bridge_port |-> bridge_port] :
        if_names \in IfNameTables, bridge_ports \in BridgePortTables,
        bridge_port \in BridgePorts}

InitPorts ==
    /\ now = 0
    /\ mac_state = NoRows
    /\ alert_history = <<>>
    /\ alert_seq = 0
    /\ last \in PortCalls
    /\ moves_run = NoRuns
    /\ LoopIdle

(* collect_fdb resolves the port of one FDB row *)
ResolvePort ==
    /\ last.op = "call_port_name"
    /\ last' = [op |-> "port_name", if_names |-> last.if_names,
                bridge_ports |-> last.bridge_ports, bridge_port |-> last.bridge_port,
                port_name |-> port_name_of(last.if_names, last.bridge_ports,
                                           last.bridge_port)]
    /\ UNCHANGED <<run_vars, settings, now, db_vars, loop_vars, moves_run>>

NextPorts == ResolvePort

SpecPorts == InitPorts /\ [][NextPorts]_vars

----------------------------------------------------------------------------
(* Properties of the state store, under SpecStore *)

IsUpdate == last.op = "update_state"
IsMoveUpdate == IsUpdate /\ last.event.status \in {"move_detected", "move_confirmed"}
IsOkUpdate == IsUpdate /\ last.event.status \in {"ok", "ok_mlag_peer"}

(* the endpoint of the last update differs from the one its row held before *)
EndpointChanged ==
    /\ last.before # None
    /\ \/ last.before[1].last_observed_switch # obs_switch(last.event.observed)
       \/ last.before[1].last_observed_port # obs_port(last.event.observed)

(* C3: after an update_state call with an OK or OK_MLAG_PEER event, whatever *)
(* calls preceded it and whether the row existed or not, the call returned 0, *)
(* get_move_counter is 0 and get_first_move_time is None.                     *)
C3_OkResetsCounter ==
    IsOkUpdate =>
        /\ last.ret = 0
        /\ get_move_counter(mac_state, last.event.mac) = 0
        /\ get_first_move_time(mac_state, last.event.mac) = None

(* an OK update has just reset a row that counted two moves *)
C3_Witness ==
    /\ IsOkUpdate
    /\ last.before # None
    /\ last.before[1].move_counter >= 2
    /\ last.before[1].first_move_seen_at # None

(* C4: the k-th consecutive move update for a MAC at one observed (switch,   *)
(* port) returns k and leaves the stored counter at k; the run is ended by   *)
(* an OK update or a move at another endpoint (the two no-op statuses, which *)
(* do not touch the store, do not end it).                                   *)
C4_CounterCountsMoves ==
    IsMoveUpdate =>
        /\ last.ret = moves_run[last.event.mac].n
        /\ get_move_counter(mac_state, last.event.mac) = moves_run[last.event.mac].n

(* the second move update in a row at one endpoint, the first having created the row *)
C4_Witness ==
    /\ IsMoveUpdate
    /\ last.ret = 2
    /\ last.before # None
    /\ last.before[1].last_ok_seen_at = None
    /\ last.event.observed # None

(* C5: a move update whose observed (switch, port) differs from the recorded *)
(* one sets the counter to 1 whatever it was, sets first_move_seen_at and     *)
(* last_move_seen_at to the current time and overwrites the recorded switch, *)
(* port and VLAN.                                                             *)
C5_EndpointChangeResets ==
    (IsMoveUpdate /\ EndpointChanged) =>
        LET row == mac_state[last.event.mac][1]
        IN  /\ last.ret = 1
            /\ row.move_counter = 1
            /\ row.first_move_seen_at = isoformat(last.at)
            /\ row.last_move_seen_at = isoformat(last.at)
            /\ row.last_observed_switch = obs_switch(last.event.observed)
            /\ row.last_observed_port = obs_port(last.event.observed)
            /\ row.last_observed_vlan = obs_vlan(last.event.observed)

(* a row that counted two moves at one endpoint, first seen earlier, has just *)
(* been given a move at another                                               *)
C5_Witness ==
    /\ IsMoveUpdate
    /\ EndpointChanged
    /\ last.before[1].move_counter >= 2
    /\ last.before[1].first_move_seen_at # None
    /\ last.before[1].first_move_seen_at # isoformat(last.at)
    /\ last.before[1].last_observed_vlan # obs_vlan(last.event.observed)

(* the step is an update_state call with a SUSPECT_UPLINK or NOT_FOUND event *)
NoOpUpdateStep ==
    /\ now' = now
    /\ last'.op = "update_state"
    /\ last'.event.status \in {"suspect_uplink", "not_found"}

C7_ReturnsNewCounter ==
    IsUpdate => last.ret = get_move_counter(mac_state, last.event.mac)

----------------------------------------------------------------------------
(* Properties of the alert history, under SpecAlerts *)

(* the rows of alert_history with the MAC and the alert hash of the last call *)
SameAlert ==
    {i \in 1..Len(alert_history) :
        /\ alert_history[i].mac_address = last.mac
        /\ alert_history[i].alert_hash =
              compute_alert_hash(last.mac, obs_switch(last.observed), obs_port(last.observed))}

(* the time since the latest of them was sent *)
SinceLatest ==
    LET latest == CHOOSE t \in {fromisoformat(alert_history[i].sent_at) : i \in SameAlert} :
                     \A i \in SameAlert : fromisoformat(alert_history[i].sent_at) <= t
    IN  now - latest

(* should_send_alert has just returned (the clock has not moved since) *)
JustAsked == last.op = "should_send_alert" /\ last.at = now

(* C8: should_send_alert returns (true, false) when alert_history has no row *)
(* with the same (mac, alert_hash); otherwise, with d the time since the      *)
(* latest sent_at of such rows, (true, true) when d > remind_after and        *)
(* (false, false) when d <= remind_after.                                     *)
C8_ShouldSendAlert ==
    JustAsked =>
        IF SameAlert = {} THEN last.ret = <<TRUE, FALSE>>
        ELSE IF SinceLatest > RemindAfter THEN last.ret = <<TRUE, TRUE>>
        ELSE last.ret = <<FALSE, FALSE>>

(* two alerts of one kind were recorded at different times, remind_after has *)
(* passed since the older but not since the newer, and the answer is no      *)
C8_Witness ==
    /\ JustAsked
    /\ last.ret = <<FALSE, FALSE>>
    /\ Cardinality(SameAlert) = 2
    /\ \E i \in SameAlert : now - fromisoformat(alert_history[i].sent_at) > RemindAfter

----------------------------------------------------------------------------
(* Properties of the poll loop, under Spec *)

IsIteration == last.op = "process_event"
Promoted == IsIteration /\ last.promoted

InFirstRun == cycles >= 1 /\ cyc_run.n = cycles

(* C2: from an empty store, when the MAC is MOVE_DETECTED at one observed    *)
(* endpoint in N = confirm_threshold consecutive cycles, cycles 1..N-1 add   *)
(* no tag and send no alert, and cycle N promotes the event with counter N,  *)
(* adds the move tag and, the notifier succeeding, sends exactly one alert,  *)
(* with is_reminder = false.                                                 *)
C2_ConfirmAfterNCycles ==
    /\ (InFirstRun /\ cycles < confirm_threshold) =>
          /\ tags = {}
          /\ sent = <<>>
          /\ IsIteration => (~last.promoted /\ last.tag_op = "none")
    /\ (InFirstRun /\ cycles = confirm_threshold /\ IsIteration) =>
          /\ last.promoted
          /\ last.counter = confirm_threshold
          /\ last.tag_op = "add"
          /\ last.decision = Some(<<TRUE, FALSE>>)
          /\ last.notified = "ok" => (Len(sent) = 1 /\ ~sent[1].is_reminder)
    /\ (InFirstRun /\ cycles = confirm_threshold /\ pc = "sleep") => Len(sent) <= 1

(* alerts i and j, sent in this order, are for one (mac, switch, port) *)
SameTriple(i, j) ==
    /\ i < j
    /\ sent[i].mac = sent[j].mac
    /\ obs_switch(sent[i].observed) = obs_switch(sent[j].observed)
    /\ obs_port(sent[i].observed) = obs_port(sent[j].observed)

(* C9: two alerts sent for the same (mac, observed switch, observed port)    *)
(* are more than remind_after apart, and every one after the first for that  *)
(* triple carries is_reminder = true.                                        *)
C9_RepeatAlertsApart ==
    \A i, j \in 1..Len(sent) :
        SameTriple(i, j) =>
            /\ sent[j].at - sent[i].at > RemindAfter
            /\ sent[j].is_reminder

(* a reminder has been sent for an endpoint that was alerted before, and an  *)
(* alert for another endpoint was sent as a first alert                      *)
C9_Witness ==
    /\ \E i, j \in 1..Len(sent) : SameTriple(i, j) /\ ~sent[i].is_reminder
    /\ Len(sent) >= 2

(* an alert for the event's (mac, switch, port) was recorded no more than    *)
(* remind_after ago                                                          *)
RecentAlert(event) ==
    \E i \in 1..Len(alert_history) :
        /\ alert_history[i].mac_address = event.mac
        /\ alert_history[i].observed_switch = obs_switch(event.observed)
        /\ alert_history[i].observed_port = obs_port(event.observed)
        /\ now - fromisoformat(alert_history[i].sent_at) <= RemindAfter

(* the step is one iteration of the loop over the events *)
IterationStep == pc = "events" /\ last'.op = "process_event"

(* C10: an OK or OK_MLAG_PEER update leaves alert_history as it is, and a    *)
(* move confirmed again at an endpoint for which an alert was recorded no    *)
(* more than remind_after ago sends no alert, whether or not the MAC was OK  *)
(* in between.                                                               *)
C10_OkKeepsHistory ==
    [][IterationStep =>
          /\ Head(events).status \in {"ok", "ok_mlag_peer"} =>
                alert_history' = alert_history
          /\ (last'.promoted /\ RecentAlert(Head(events))) =>
                /\ last'.decision = Some(<<FALSE, FALSE>>)
                /\ last'.notified = "none"
                /\ sent' = sent
                /\ alert_history' = alert_history]_vars

(* a move was alerted, the MAC went back to OK, and the move confirmed again *)
(* at the same endpoint within remind_after has been suppressed              *)
C10_Witness ==
    /\ Promoted
    /\ last.decision = Some(<<FALSE, FALSE>>)
    /\ mac_state[last.event.mac] # None
    /\ mac_state[last.event.mac][1].last_ok_seen_at # None
    /\ \E i \in 1..Len(alert_history) :
          /\ alert_history[i].mac_address = last.event.mac
          /\ alert_history[i].observed_switch = obs_switch(last.event.observed)
          /\ alert_history[i].observed_port = obs_port(last.event.observed)
          /\ fromisoformat(alert_history[i].sent_at)
                < fromisoformat(mac_state[last.event.mac][1].last_ok_seen_at)
          /\ last.at - fromisoformat(alert_history[i].sent_at) <= RemindAfter

----------------------------------------------------------------------------
(* Properties of the poll loop when the notifier, the inventory or the     *)
(* store fail                                                              *)

(* the notifier did not deliver the alert of the event's device in the     *)
(* cycle before this one, and the event is MOVE_DETECTED at that endpoint  *)
RetryDue(event) ==
    LET f == failed[event.device_id]
    IN  /\ f # None
        /\ f[1].cycle = cycles - 1
        /\ event.status = "move_detected"
        /\ event.observed = f[1].observed

(* C11: when the notifier raises or reports failure for a confirmed alert,  *)
(* record_alert is not called for it, and in the next cycle, the MAC being  *)
(* still MOVE_DETECTED at the same observed endpoint, the alert is handed   *)
(* to the notifier again with the same is_reminder value.                   *)
C11_FailedAlertRetried ==
    [][IterationStep =>
          /\ last'.notified \in {"false", "raise"} =>
                /\ "record_alert" \notin Range(last'.calls)
                /\ alert_history' = alert_history
          /\ RetryDue(Head(events)) =>
                /\ last'.promoted
                /\ last'.notified # "none"
                /\ last'.decision =
                      Some(<<TRUE, failed[Head(events).device_id][1].is_reminder>>)]_vars

(* the step is a call on the store that raises, made for an event *)
StoreFailureStep == pc = "events" /\ last'.op = "store_failure"

(* C12: when a store call made for an event (update_state,                  *)
(* should_send_alert, get_first_move_time or record_alert) fails, the cycle *)
(* is aborted: no later event of the cycle is processed.                    *)
C12_StoreFailureAbortsCycle ==
    [][StoreFailureStep => (events' = <<>> /\ pc' = "sleep")]_vars

(* the five calls C13 speaks of, in the order it gives *)
CallOrder ==
    <<"update_state", "add_tag_to_device", "should_send_alert", "send_alert", "record_alert">>

InCallOrder(c) == c \in Range(CallOrder)
IsPrefix(p, q) == Len(p) <= Len(q) /\ SubSeq(q, 1, Len(p)) = p

(* C13: for each event the calls are made in the order update_state, then,  *)
(* only if the move is confirmed, add_tag_to_device, should_send_alert, the *)
(* notifier's send_alert, record_alert; record_alert is called only after   *)
(* should_send_alert returned send = true and the notifier succeeded, and   *)
(* it stores the is_reminder value that should_send_alert returned.         *)
C13_CallOrder ==
    [][IterationStep =>
          LET it == last'
              calls == SelectSeq(it.calls, InCallOrder)
          IN  /\ IsPrefix(calls, CallOrder)
              /\ Len(calls) >= 1
              /\ Len(calls) >= 2 =>
                    /\ it.event.status = "move_detected"
                    /\ it.counter >= confirm_threshold
              /\ "send_alert" \in Range(calls) <=> it.notified # "none"
              /\ "send_alert" \in Range(calls) => it.decision[1][1]
              /\ "record_alert" \in Range(calls) <=> alert_history' # alert_history
              /\ "record_alert" \in Range(calls) =>
                    /\ it.decision[1][1]
                    /\ it.notified = "ok"
                    /\ Len(alert_history') = Len(alert_history) + 1
                    /\ SubSeq(alert_history', 1, Len(alert_history)) = alert_history
                    /\ LET row == alert_history'[Len(alert_history')]
                       IN  /\ row.mac_address = it.event.mac
                           /\ row.observed_switch = obs_switch(it.event.observed)
                           /\ row.observed_port = obs_port(it.event.observed)
                           /\ row.is_reminder = (IF it.decision[1][2] THEN 1 ELSE 0)]_vars

(* a reminder has been delivered and recorded *)
C13_Witness ==
    /\ IsIteration
    /\ "record_alert" \in Range(last.calls)
    /\ last.decision = Some(<<TRUE, TRUE>>)
    /\ alert_history[Len(alert_history)].is_reminder = 1

(* the iteration handled an event that is neither OK nor a confirmed move *)
NotActedOn(it) ==
    \/ it.event.status \in {"suspect_uplink", "not_found"}
    \/ it.event.status = "move_detected" /\ it.counter < confirm_threshold

(* C14: the ipmi-moved tag is put on a device only by an iteration for a    *)
(* MOVE_DETECTED event of that device whose counter reached N, and taken    *)
(* off only by an iteration for an OK or OK_MLAG_PEER event of that device; *)
(* SUSPECT_UPLINK, NOT_FOUND and unconfirmed MOVE_DETECTED events neither   *)
(* add nor remove a tag nor send an alert, so a tag stays until an OK cycle *)
C14_TagLifecycle ==
    [][/\ \A d \in DeviceIds :
            /\ (d \notin tags /\ d \in tags') =>
                  /\ IterationStep
                  /\ last'.event.device_id = d
                  /\ last'.event.status = "move_detected"
                  /\ last'.counter >= confirm_threshold
            /\ (d \in tags /\ d \notin tags') =>
                  /\ IterationStep
                  /\ last'.event.device_id = d
                  /\ last'.event.status \in {"ok", "ok_mlag_peer"}
       /\ (IterationStep /\ NotActedOn(last')) =>
            /\ tags' = tags
            /\ sent' = sent
            /\ alert_history' = alert_history
            /\ last'.notified = "none"
            /\ last'.tag_op = "none"
            /\ last'.calls = <<"update_state">>]_vars

(* a tagged device whose MAC then shows on an uplink keeps its tag *)
C14_Witness ==
    /\ IsIteration
    /\ last.event.status = "suspect_uplink"
    /\ last.event.device_id \in tags
    /\ cycles >= 2

(* correlate has just returned *)
Correlated == last.op = "correlate"

(* C15: correlate returns exactly one MoveEvent per server, in the order of *)
(* the input, each for its server; no event has status MOVE_CONFIRMED; the  *)
(* observed endpoint is None exactly when the status is NOT_FOUND.          *)
C15_OneEventPerServer ==
    Correlated =>
        /\ Len(last.events) = Len(last.servers)
        /\ \A i \in 1..Len(last.events) :
              LET event == last.events[i]
                  server == last.servers[i]
              IN  /\ event.mac = server.mac
                  /\ event.server_name = server.server_name
                  /\ event.device_id = server.device_id
                  /\ event.status \in {"ok", "ok_mlag_peer", "suspect_uplink",
                                       "move_detected", "not_found"}
                  /\ event.status # "move_confirmed"
                  /\ event.observed = None <=> event.status = "not_found"

(* two servers, one found and one not *)
C15_Witness ==
    /\ Correlated
    /\ Len(last.servers) = 2
    /\ last.events[1].status = "not_found"
    /\ last.events[2].status # "not_found"

(* some group of MLAG_GROUPS holds both switches, whatever the case of the names *)
SharesGroup(st, switch1, switch2) ==
    \E k \in 1..Len(st.mlag_groups) :
        /\ lower(switch1) \in member_set(st.mlag_groups[k])
        /\ lower(switch2) \in member_set(st.mlag_groups[k])

(* C17: for every MLAG_GROUPS mapping, one with a switch in more than one    *)
(* group included, two switches are MLAG peers iff some group contains both  *)
(* (case-insensitively), and the relation is symmetric.                      *)
C17_PeersShareGroup ==
    last.op = "is_mlag_peer" =>
        /\ last.ret = SharesGroup(settings, last.switch1, last.switch2)
        /\ last.ret = is_mlag_peer(settings, last.switch2, last.switch1)

(* the ordered decision table of C16, peers being switches that share a group *)
TableStatus(st, expected, observed) ==
    IF expected = None THEN "move_detected"
    ELSE IF /\ lower(observed.switch_name) = lower(expected[1].switch_name)
            /\ normalize_port_name(observed.port_name)
                  = normalize_port_name(expected[1].port_name)
    THEN "ok"
    ELSE IF /\ SharesGroup(st, expected[1].switch_name, observed.switch_name)
            /\ normalize_port_name(observed.port_name)
                  = normalize_port_name(expected[1].port_name)
    THEN "ok_mlag_peer"
    ELSE IF is_uplink_port(st, observed.port_name) THEN "suspect_uplink"
    ELSE "move_detected"

(* C16: for the selected observation the status follows the ordered table:  *)
(* no expected endpoint gives MOVE_DETECTED; else observed equal to         *)
(* expected (switch case-insensitively, canonical port) gives OK; else an   *)
(* MLAG peer of the expected switch with equal canonical ports gives        *)
(* OK_MLAG_PEER; else an uplink port gives SUSPECT_UPLINK; otherwise        *)
(* MOVE_DETECTED; earlier rows win over later ones.                         *)
C16_DecisionTable ==
    Correlated =>
        \A i \in 1..Len(last.events) :
            last.events[i].observed # None =>
                last.events[i].status =
                    TableStatus(settings, last.servers[i].expected_endpoint,
                                last.events[i].observed[1])

(* where the FDB data show the MAC: <<switch, port>> of every entry that    *)
(* carries it on a switch that answered                                     *)
SeenAt(mac, fdb_data) ==
    UNION {{<<fdb_data[k].switch_name, fdb_data[k].entries[j].port_name>> :
               j \in {j \in 1..Len(fdb_data[k].entries) :
                         lower(fdb_data[k].entries[j].mac_address) = lower(mac)}} :
           k \in {k \in 1..Len(fdb_data) : fdb_data[k].error = None}}

(* the MAC of the server is seen at its expected endpoint and also on a     *)
(* non-uplink port of another switch                                        *)
SeenAtHomeAndAway(st, server, fdb_data) ==
    /\ server.expected_endpoint # None
    /\ LET expected == server.expected_endpoint[1]
           seen == SeenAt(server.mac, fdb_data)
       IN  /\ \E o \in seen :
                 /\ lower(o[1]) = lower(expected.switch_name)
                 /\ normalize_port_name(o[2]) = normalize_port_name(expected.port_name)
           /\ \E o \in seen :
                 /\ lower(o[1]) # lower(expected.switch_name)
                 /\ ~is_uplink_port(st, o[2])

(* C18: a MAC seen at its expected endpoint and also on a non-uplink port   *)
(* of another switch gets the observation on the expected switch: the       *)
(* event's observed switch is the expected switch and the status is OK,     *)
(* whatever the order of the switches in the FDB data.                      *)
C18_ExpectedSwitchPreferred ==
    Correlated =>
        \A i \in 1..Len(last.events) :
            SeenAtHomeAndAway(settings, last.servers[i], last.fdb_data) =>
                /\ last.events[i].status = "ok"
                /\ last.events[i].observed # None
                /\ lower(last.events[i].observed[1].switch_name)
                      = lower(last.servers[i].expected_endpoint[1].switch_name)

(* the observations that remain after the uplink filter: all of them when    *)
(* every one is on an uplink port                                            *)
Remaining(st, seen) ==
    LET non_uplink == {o \in seen : ~is_uplink_port(st, o[2])}
    IN  IF non_uplink # {} THEN non_uplink ELSE seen

(* the remaining observations on the expected switch, and those among them   *)
(* whose canonical port is not the expected one                              *)
OnExpectedSwitch(st, server, fdb_data) ==
    {o \in Remaining(st, SeenAt(server.mac, fdb_data)) :
        lower(o[1]) = lower(server.expected_endpoint[1].switch_name)}

OffExpectedPort(st, server, fdb_data) ==
    {o \in OnExpectedSwitch(st, server, fdb_data) :
        normalize_port_name(o[2])
            # normalize_port_name(server.expected_endpoint[1].port_name)}

(* C19 as stated: when the expected endpoint is known and more than one      *)
(* observation that remains after uplink filtering is on the expected        *)
(* switch, the selected observation is one on the expected switch whose      *)
(* canonical port differs from the expected one (if there is one), so that   *)
(* a MAC seen on the expected port and on another port of the expected       *)
(* switch is MOVE_DETECTED at the other port.                                *)
C19_SameSwitchDoubles ==
    Correlated =>
        \A i \in 1..Len(last.events) :
            LET server == last.servers[i]
                event == last.events[i]
            IN  (/\ server.expected_endpoint # None
                 /\ Cardinality(OnExpectedSwitch(settings, server, last.fdb_data)) > 1
                 /\ OffExpectedPort(settings, server, last.fdb_data) # {}) =>
                    /\ event.observed # None
                    /\ <<event.observed[1].switch_name, event.observed[1].port_name>>
                          \in OffExpectedPort(settings, server, last.fdb_data)
                    /\ event.status = "move_detected"

(* C19, amended: under the same conditions the selected observation is one  *)
(* on the expected switch whose canonical port differs from the expected     *)
(* one, and the status is MOVE_DETECTED at that port, or SUSPECT_UPLINK when *)
(* that port is an uplink port (every observation then being on an uplink).  *)
C19_SameSwitchDoublesOrUplink ==
    Correlated =>
        \A i \in 1..Len(last.events) :
            LET server == last.servers[i]
                event == last.events[i]
            IN  (/\ server.expected_endpoint # None
                 /\ Cardinality(OnExpectedSwitch(settings, server, last.fdb_data)) > 1
                 /\ OffExpectedPort(settings, server, last.fdb_data) # {}) =>
                    /\ event.observed # None
                    /\ <<event.observed[1].switch_name, event.observed[1].port_name>>
                          \in OffExpectedPort(settings, server, last.fdb_data)
                    /\ event.status =
                          (IF is_uplink_port(settings, event.observed[1].port_name)
                           THEN "suspect_uplink" ELSE "move_detected")

(* the MAC on its expected port and on another port of the same switch *)
C19_Witness ==
    /\ Correlated
    /\ Len(last.servers) = 1
    /\ last.servers[1].expected_endpoint = Some(ExpectedEndpoint("switch1", "Ethernet1"))
    /\ SeenAt(last.servers[1].mac, last.fdb_data)
          = {<<"switch1", "Ethernet1">>, <<"switch1", "Ethernet5">>}
    /\ last.fdb_data[1].entries[1].port_name = "Ethernet1"
    /\ last.events[1].status = "move_detected"
    /\ last.events[1].observed[1].port_name = "Ethernet5"

(* C20: when at least one observation of a MAC is on a non-uplink port the   *)
(* selected observation is on a non-uplink port; hence a MAC is              *)
(* SUSPECT_UPLINK only when every observation of it is on an uplink port.    *)
C20_NonUplinkPreferred ==
    Correlated =>
        \A i \in 1..Len(last.events) :
            LET seen == SeenAt(last.servers[i].mac, last.fdb_data)
                event == last.events[i]
            IN  /\ (\E o \in seen : ~is_uplink_port(settings, o[2])) =>
                      /\ event.observed # None
                      /\ ~is_uplink_port(settings, event.observed[1].port_name)
                /\ event.status = "suspect_uplink" =>
                      /\ seen # {}
                      /\ \A o \in seen : is_uplink_port(settings, o[2])

(* the MAC is found on an uplink first and on an access port after it *)
C20_Witness ==
    /\ Correlated
    /\ Len(last.servers) = 1
    /\ lower(last.servers[1].mac) = MacA
    /\ Len(last.fdb_data) = 2
    /\ last.fdb_data[1].error = None
    /\ last.fdb_data[1].entries = <<FdbEntry(MacA, "Eth-Trunk1", Some(100))>>
    /\ is_uplink_port(settings, "Eth-Trunk1")
    /\ last.events[1].observed # None
    /\ last.events[1].observed[1].switch_name = last.fdb_data[2].switch_name
    /\ last.events[1].observed[1].port_name = "Ethernet5"

(* the switches of the FDB data whose error is set *)
Errored(fdb_data) == {fdb_data[k].switch_name : k \in {k \in 1..Len(fdb_data) : fdb_data[k].error # None}}

(* the switches that hold an entry for the MAC, errored or not *)
Holding(mac, fdb_data) ==
    {fdb_data[k].switch_name :
        k \in {k \in 1..Len(fdb_data) :
                  \E j \in 1..Len(fdb_data[k].entries) :
                      lower(fdb_data[k].entries[j].mac_address) = lower(mac)}}

(* C21: a SwitchFdb whose error is set contributes no observation to any    *)
(* server: no event is observed on an errored switch, a MAC that appears    *)
(* only on errored switches is NOT_FOUND, and correlate still returns its   *)
(* event for every server.                                                  *)
C21_ErroredSwitchIgnored ==
    Correlated =>
        /\ Len(last.events) = Len(last.servers)
        /\ \A i \in 1..Len(last.events) :
              LET event == last.events[i]
              IN  /\ event.observed # None =>
                        event.observed[1].switch_name \notin Errored(last.fdb_data)
                  /\ Holding(last.servers[i].mac, last.fdb_data) \subseteq Errored(last.fdb_data)
                        => event.status = "not_found"

(* the MAC sits on its expected port of a switch whose collection failed *)
C21_Witness ==
    /\ Correlated
    /\ Len(last.servers) = 1
    /\ last.servers[1].expected_endpoint = Some(ExpectedEndpoint("switch1", "Ethernet1"))
    /\ Holding(last.servers[1].mac, last.fdb_data) = {"switch1"}
    /\ Errored(last.fdb_data) = {"switch1"}
    /\ last.events[1].status = "not_found"

----------------------------------------------------------------------------
(* Properties of models.py, under SpecModels *)

(* the names of the table: a long prefix and the short form it is replaced by *)
KnownAlias(long, short) ==
    \E i \in 1..Len(PORT_PREFIXES) :
        \E tail \in NameTails :
            /\ long = PORT_PREFIXES[i][1] \o tail
            /\ short = PORT_PREFIXES[i][2] \o tail

(* C22: normalize_port_name is idempotent for every input string,           *)
(* normalize(normalize(x)) = normalize(x), and known aliases share a        *)
(* canonical form, e.g. GigabitEthernet0/0/7 and GE0/0/7.                   *)
C22_NormalizeIdempotent ==
    last.op = "normalize_port_name" =>
        /\ last.again = last.ret
        /\ \A short \in PortNames :
              KnownAlias(last.name, short) => normalize_port_name(short) = last.ret

(* the canonical form of the port names that matches is called with *)
CanonicalPort(port) ==
    CASE port \in {"Ethernet1", "ETHERNET1", "ethernet1", "Eth1"} -> "eth1"
      [] port = "Ethernet2" -> "eth2"
      [] port \in {"GigabitEthernet0/0/7", "GE0/0/7"} -> "ge0/0/7"

(* the switch the name stands for, case aside *)
SwitchOf(name) == IF name \in {"switch1", "Switch1"} THEN 1 ELSE 2

(* C23: ObservedEndpoint.matches(expected) is true exactly when expected is *)
(* not None, the switch names are equal ignoring case and the port names    *)
(* have equal canonical forms; it is false for a None expected, another     *)
(* switch or another port.                                                  *)
C23_MatchesExactly ==
    last.op = "matches" =>
        (last.ret <=>
            /\ last.expected # None
            /\ SwitchOf(last.observed.switch_name) = SwitchOf(last.expected[1].switch_name)
            /\ CanonicalPort(last.observed.port_name)
                  = CanonicalPort(last.expected[1].port_name))

(* an endpoint written in another case and another form matches *)
C23_Witness ==
    /\ last.op = "matches"
    /\ last.ret
    /\ last.observed.switch_name = "switch1"
    /\ last.observed.port_name = "Eth1"
    /\ last.expected = Some(ExpectedEndpoint("Switch1", "ETHERNET1"))

----------------------------------------------------------------------------
(* Properties of snmp_collector.py, under SpecCollect *)

Collected == last.op = "collect_all"

(* the SwitchFdb returned for a switch, None when the dict has no such key *)
ResultFor(results, switch) == dict_get(results, switch, None)

(* the network with every switch but one answering all walks *)
OnlyFailing(network, switch) ==
    [sw \in DOMAIN network |-> IF sw = switch THEN network[sw] ELSE <<AllOk, AllOk>>]

(* C24: collect_all does not raise; its result has, under the name of every *)
(* switch of the input, the SwitchFdb of that switch; what it holds for a   *)
(* switch is what it would hold if no other switch had failed; and a        *)
(* SwitchFdb with an error has no entries.                                  *)
C24_CollectAllIsolatesSwitches ==
    Collected =>
        /\ ~last.raised
        /\ \A i \in 1..Len(last.switches) :
            LET switch == last.switches[i]
                fdb == ResultFor(last.results, switch)
                alone == collect_all(last.switches, last.agents,
                                     OnlyFailing(last.network, switch))
            IN  /\ fdb # None
                /\ fdb.switch_name = switch
                /\ fdb = ResultFor(alone.results, switch)
                /\ (fdb.error # None => fdb.entries = <<>>)

(* a collection from two switches where the first failed with an error and  *)
(* the second delivered the MAC                                            *)
C24_Witness ==
    /\ Collected
    /\ Len(last.switches) = 2
    /\ ResultFor(last.results, "switch1").error # None
    /\ ResultFor(last.results, "switch2").error = None
    /\ ResultFor(last.results, "switch2").entries # <<>>
    /\ ~last.raised

(* the first execution of collect_fdb for a switch ran into an exception *)
FirstAttemptFailed(switch) ==
    collect_fdb_try(switch, last.agents[switch], last.network[switch][1]).raised

(* C25: collect_fdb is executed at most twice per switch, and a second time *)
(* whenever the first execution failed.                                     *)
C25_SecondAttemptAfterFailure ==
    Collected =>
        \A i \in 1..Len(last.switches) :
            LET switch == last.switches[i]
                attempts == dict_get(last.attempts, switch, 0)
            IN  /\ attempts <= 2
                /\ (FirstAttemptFailed(switch) => attempts = 2)

(* the walks collect_fdb makes on a switch when none of them raises *)
WalksMade(agent, profile) ==
    {IF_NAME, DOT1D_BASE_PORT_IF_INDEX, DOT1Q_TP_FDB_PORT}
    \cup (IF walk_oid(agent, profile, IF_NAME).results = <<>> THEN {IF_DESCR} ELSE {})
    \cup (IF walk_oid(agent, profile, DOT1Q_TP_FDB_PORT).results = <<>>
          THEN {DOT1D_TP_FDB_PORT, DOT1D_TP_FDB_ADDRESS} ELSE {})

(* a walk of the switch was not answered, and none raised *)
WalkTimedOut(switch) ==
    LET profile == last.network[switch][1]
    IN  /\ \A oid \in Oids : profile[oid] # "raise"
        /\ \E oid \in WalksMade(last.agents[switch], profile) : profile[oid] = "timeout"

(* C26: a switch with a walk that timed out gets a SwitchFdb with an error  *)
(* and no entries, and is not counted as collected.                        *)
C26_FailedWalkSetsError ==
    Collected =>
        /\ \A i \in 1..Len(last.switches) :
            WalkTimedOut(last.switches[i]) =>
                /\ ResultFor(last.results, last.switches[i]).error # None
                /\ ResultFor(last.results, last.switches[i]).entries = <<>>
        /\ last.successful <=
                Cardinality({i \in 1..Len(last.switches) : ~WalkTimedOut(last.switches[i])})

(* the events of the same cycle had every walk of every switch been answered *)
EventsWithoutFailure ==
    correlate(settings, CollectServers,
              dict_values(collect_all(last.switches, last.agents,
                                      [sw \in DOMAIN last.network |-> <<AllOk, AllOk>>]).results))

(* no walk raised: the failures of the cycle, if any, are timeouts *)
OnlyTimeouts ==
    \A i \in 1..Len(last.switches) :
        \A oid \in Oids : last.network[last.switches[i]][1][oid] # "raise"

(* C27: with walks timing out, every server gets the event it would have    *)
(* had without the timeouts, or NOT_FOUND.                                  *)
C27_TimeoutChangesNoEvent ==
    (Collected /\ OnlyTimeouts) =>
        \A i \in 1..Len(last.events) :
            \/ last.events[i] = EventsWithoutFailure[i]
            \/ last.events[i].status = "not_found"

----------------------------------------------------------------------------
(* Properties of the inventory listing in the poll loop, under Spec *)

(* a cycle ends before its FDB collection *)
CycleSkipped == pc = "idle" /\ pc' = "sleep"

(* C28: a cycle whose inventory listing call failed in all its attempts, at *)
(* most 3, or returned an empty list is skipped: the step that ends it      *)
(* changes neither mac_state nor alert_history nor the tags, and sends no   *)
(* alert; a cycle that goes on has listed servers and switches.             *)
C28_FailedListingSkipsCycle ==
    [][/\ CycleSkipped =>
            /\ last'.op = "skip_cycle"
            /\ last'.attempts <= 3
            /\ (last'.raised => last'.attempts = 3)
            /\ mac_state' = mac_state
            /\ alert_history' = alert_history
            /\ tags' = tags
            /\ sent' = sent
       /\ (pc = "idle" /\ pc' = "events") => events' # <<>>]_vars

(* a cycle skipped after three failed attempts, with a row in mac_state *)
C28_Witness ==
    /\ pc = "sleep"
    /\ last.op = "skip_cycle"
    /\ last.raised
    /\ last.attempts = 3
    /\ mac_state # NoRows

----------------------------------------------------------------------------
(* Properties of the run loop and of shutdown, under SpecRun *)

(* a cycle has just ended with an exception in one of its steps *)
CycleFailed == pc = "after" /\ last.op = "run_once" /\ last.raised

(* the step in which a step of run_once raises *)
StepRaises == pc \in {"run_once", "events"} /\ last'.op = "run_once" /\ last'.raised

(* C29: an exception in a step of a cycle, with or without a failing error  *)
(* notification, ends run_once and not the process; the process exits only  *)
(* at startup or on a shutdown request; and after the failed cycle the loop *)
(* sleeps and starts the next cycle unless a shutdown is requested.         *)
C29_ExceptionNeverEndsLoop ==
    /\ [][StepRaises => (pc' = "after" /\ exit_code' = None)]_vars
    /\ [][(exit_code = None /\ exit_code' # None) =>
            (pc \in {"main", "startup"} \/ ~running)]_vars
    /\ (CycleFailed ~> (pc = "sleeping" \/ ~running))
    /\ (CycleFailed ~> (pc = "run_once" \/ ~running))

(* the loop sleeps after a cycle that raised in step 5 and whose error       *)
(* notification failed too                                                  *)
C29_Witness ==
    /\ pc = "sleeping"
    /\ running
    /\ last.op = "run_once"
    /\ last.raised
    /\ last.step = 5
    /\ ~last.notified

(* what a signal does, and what the process does once the flag is cleared:  *)
(* the flag stays cleared; a signal changes nothing else; the event in      *)
(* progress is handled (or raises); the sleep ends at its next tick; no     *)
(* cycle is started                                                         *)
ShutdownSteps ==
    /\ [][~running => ~running']_vars
    /\ [][running' # running => UNCHANGED <<pc, events, sleep_left, exit_code, last>>]_vars
    /\ [][(~running /\ ~running' /\ pc = "events" /\ events # <<>>) =>
            (events' = Tail(events) \/ StepRaises)]_vars
    /\ [][(~running /\ ~running' /\ pc = "sleeping") => pc' = "loop"]_vars
    /\ [][(~running /\ pc # "run_once") => pc' # "run_once"]_vars

(* C30, as stated: ShutdownSteps, and once the flag is cleared the process  *)
(* eventually exits with code 0.                                            *)
C30_ShutdownExitsZero ==
    /\ ShutdownSteps
    /\ (~running ~> exit_code = Some(0))

(* C30: ShutdownSteps, and once the flag is cleared the process eventually  *)
(* exits, with code 0 unless it is the startup that failed.                 *)
C30_ShutdownExitsZeroAfterStartup ==
    /\ ShutdownSteps
    /\ (~running ~>
            \/ exit_code = Some(0)
            \/ exit_code = Some(1) /\ last.op = "startup" /\ last.raised)

(* the process has exited with code 0 on a request that came after a cycle *)
C30_Witness ==
    /\ pc = "exited"
    /\ exit_code = Some(0)
    /\ ~running
    /\ last.op = "run_once"

----------------------------------------------------------------------------
(* Properties of the rows of mac_state *)

(* C33: in the poll loop, where update_state gets the events of the         *)
(* correlator, every row of mac_state has move_counter >= 0; with           *)
(* move_counter = 0 its first_move_seen_at is NULL; with move_counter > 0   *)
(* its last_observed_switch and last_observed_port are set.                 *)
C33_RowInvariants ==
    \A mac \in Macs :
        mac_state[mac] # None =>
            LET row == mac_state[mac][1]
            IN  /\ row.move_counter >= 0
                /\ (row.move_counter = 0 => row.first_move_seen_at = None)
                /\ (row.move_counter > 0 =>
                        /\ row.last_observed_switch # None
                        /\ row.last_observed_port # None)

(* a row that counted a move and was reset by an OK event, and later a row  *)
(* that counts moves again: here the first of the two                       *)
C33_Witness ==
    /\ mac_state[MacA] # None
    /\ mac_state[MacA][1].move_counter = 0
    /\ mac_state[MacA][1].last_observed_switch # None
    /\ mac_state[MacA][1].last_ok_seen_at # None

(* C34 (under SpecStore): after a move update for a MAC with an observed    *)
(* endpoint, as the correlator reports it, get_first_move_time is not None: *)
(* it is the time of the update when the update starts a run of moves, and  *)
(* what it was before otherwise.                                            *)
C34_FirstMoveTimeOfRun ==
    (IsUpdate /\ last.event.status = "move_detected" /\ last.event.observed # None) =>
        LET mac == last.event.mac
            first == get_first_move_time(mac_state, mac)
        IN  /\ first # None
            /\ IF moves_run[mac].n = 1
               THEN first = Some(last.at)
               ELSE /\ last.before # None
                    /\ last.before[1].first_move_seen_at # None
                    /\ first = Some(fromisoformat(last.before[1].first_move_seen_at))

----------------------------------------------------------------------------
(* Properties of alert_history, under SpecAlerts *)

(* the rows of alert_history not older than days before now *)
NotOlderThan(days) ==
    {alert_history[i] : i \in {j \in 1..Len(alert_history) :
                                  now - fromisoformat(alert_history[j].sent_at) <= days}}

(* C35: record_alert appends one row and leaves the rows there as they are; *)
(* cleanup_old_alerts(days) leaves exactly the rows not older than days, in  *)
(* their order, and returns the number of rows it deleted; neither touches  *)
(* mac_state; alert_history changes in no other step, and the step of       *)
(* should_send_alert, get_move_counter or get_first_move_time changes no    *)
(* table.                                                                   *)
C35_HistoryAppendOnly ==
    [][/\ (last'.op = "record_alert" /\ alert_seq' # alert_seq) =>
            /\ Len(alert_history') = Len(alert_history) + 1
            /\ SubSeq(alert_history', 1, Len(alert_history)) = alert_history
            /\ mac_state' = mac_state
       /\ (last'.op = "cleanup_old_alerts" /\ last' # last) =>
            /\ Range(alert_history') = NotOlderThan(last'.days)
            /\ \A i, j \in 1..Len(alert_history') :
                    i < j => alert_history'[i].id < alert_history'[j].id
            /\ last'.ret = Len(alert_history) - Len(alert_history')
            /\ mac_state' = mac_state
       /\ alert_history' # alert_history =>
            last'.op \in {"record_alert", "cleanup_old_alerts"}
       /\ (last'.op \in {"should_send_alert", "getters"} /\ last' # last) =>
            UNCHANGED <<mac_state, alert_history, alert_seq>>]_vars

(* a cleanup has just deleted one row of two and left the newer one, with a *)
(* row in mac_state                                                         *)
C35_Witness ==
    /\ last.op = "cleanup_old_alerts"
    /\ last.ret = 1
    /\ Len(alert_history) = 1
    /\ mac_state # NoRows

----------------------------------------------------------------------------
(* Properties of the tag calls, under SpecTags *)

(* the slug under which NetBox knows the tag of a name *)
SlugOfName(tag_name) ==
    CASE tag_name = "IPMI Moved" -> "ipmi-moved"
      [] tag_name = "ipmi moved" -> "ipmi-moved"

(* the tags, by slug, that a device carries *)
SlugsOn(nb, device_id) ==
    {nb.tags[i].slug : i \in {j \in 1..Len(nb.tags) :
                                \E k \in 1..Len(nb.devices[device_id][1]) :
                                    nb.devices[device_id][1][k] = nb.tags[j].id}}

TagCalled == last.op \in {"add_tag", "remove_tag"}

----------------------------------------------------------------------------
(* Properties of the configuration, under SpecRun *)

(* one of the configuration errors: MLAG_GROUPS is not JSON, REMIND_AFTER   *)
(* is no duration, SWITCHES_SELECTOR has no known form                      *)
ConfigError ==
    \/ json_loads(env.mlag_groups).raised
    \/ parse_duration(env.remind_after).raised
    \/ parse_selector(env.switches_selector).raised

(* C31: with a configuration error the process never gets further than      *)
(* main(): it is either still there or has exited with a non-zero code      *)
(* without having entered run(), its poll loop or a cycle.                  *)
C31_ConfigErrorIsFatal ==
    ConfigError =>
        \/ pc = "main"
        \/ pc = "exited" /\ exit_code # None /\ exit_code # Some(0) /\ last.op = "main"

----------------------------------------------------------------------------
(* Properties of the waits of the run loop, under SpecRun *)

(* the run loop is waiting: in the sleep between two cycles or in the sleep *)
(* that follows an exception which reached run                              *)
Waiting == pc \in {"sleeping", "backoff"}

(* the flag has been cleared during the wait in progress: the sleep between *)
(* cycles begins only with the flag set, and run records the flag with      *)
(* which its back-off began                                                 *)
ClearedWhileWaiting ==
    /\ ~running
    /\ \/ pc = "sleeping"
       \/ pc = "backoff" /\ last.running

(* C39: when the flag has been cleared during a wait, the wait does not     *)
(* last another second: the next step of the process ends it.               *)
C39_WaitObservesShutdown ==
    [][ClearedWhileWaiting => ~Waiting']_vars

----------------------------------------------------------------------------
(* Properties of the port name of an FDB row, under SpecPorts *)

has_key(d, k) == \E i \in 1..Len(d) : d[i][1] = k

(* bridge_port -> ifIndex -> name, when both tables have the entry *)
Resolves(if_names, bridge_ports, bridge_port) ==
    /\ has_key(bridge_ports, bridge_port)
    /\ has_key(if_names, dict_get(bridge_ports, bridge_port, 0))

(* C37: the port name of an FDB row is the name of the ifIndex of its       *)
(* bridge port when the bridge-port table has the bridge port and the       *)
(* interface table has that ifIndex, and "port<bridge_port>" otherwise.     *)
C37_PortNameOrSynthesized ==
    last.op = "port_name" =>
        IF Resolves(last.if_names, last.bridge_ports, last.bridge_port)
        THEN last.port_name =
                dict_get(last.if_names, dict_get(last.bridge_ports, last.bridge_port, 0), "")
        ELSE last.port_name = "port" \o ToString(last.bridge_port)

----------------------------------------------------------------------------
(* Properties of the move counter within a cycle, under Spec *)

(* C38: the counter of a MAC goes up by at most 1 in a poll cycle: from the *)
(* empty store, after k cycles no counter exceeds k, and with a threshold   *)
(* N > 1 no event is promoted in the first cycle.                           *)
C38_OneIncrementPerCycle ==
    /\ \A mac \in Macs : get_move_counter(mac_state, mac) <= cycles
    /\ (IsIteration /\ last.promoted /\ confirm_threshold > 1) => cycles > 1

----------------------------------------------------------------------------
(* Properties of a cycle in which the notifier fails, under Spec *)

(* the iteration just made handed an alert to the notifier, which reported  *)
(* failure or raised                                                        *)
NotifierFailed == IsIteration /\ last.notified \in {"false", "raise"}

(* C36: an iteration in which the notifier fails leaves the other events of *)
(* the cycle to the loop, and the iteration that follows it in the cycle    *)
(* is that of the next event: update_state is called for it, the tag is     *)
(* removed for an OK event, and for a move at or above the threshold the    *)
(* tag is added and should_send_alert is asked.                             *)
C36_NotifierFailureKeepsCycle ==
    /\ [][(pc = "events" /\ last'.op = "process_event"
             /\ last'.notified \in {"false", "raise"}) =>
            /\ events' = Tail(events)
            /\ pc' = IF Tail(events) = <<>> THEN "sleep" ELSE "events"]_vars
    /\ [][(pc = "events" /\ NotifierFailed) =>
            /\ last'.op = "process_event"
            /\ last'.event = Head(events)
            /\ last'.calls[1] = "update_state"
            /\ last'.counter = get_move_counter(mac_state', Head(events).mac)
            /\ Head(events).status \in {"ok", "ok_mlag_peer"} =>
                    last'.calls = <<"update_state", "remove_tag_from_device">>
            /\ (Head(events).status = "move_detected"
                  /\ last'.counter >= confirm_threshold) =>
                    /\ last'.tag_op = "add"
                    /\ SubSeq(last'.calls, 1, 3) =
                          <<"update_state", "add_tag_to_device", "should_send_alert">>
                    /\ last'.decision # None]_vars

(* the event of the second device has had its alert decision after the      *)
(* notifier failed for the first device in the same cycle                   *)
C36_Witness ==
    /\ IsIteration
    /\ last.event.device_id = 2
    /\ last.decision # None
    /\ failed[1] # None
    /\ failed[1][1].cycle = cycles

====
